---- MODULE Spec2Model ----
(***************************************************************************)
(* The orchestrator of pls (src/src/target.rs), its staleness oracle, the  *)
(* process supervisor (src/src/commands.rs) and the cleanup stack          *)
(* (src/src/cleanup.rs), as one state machine.                             *)
(*                                                                         *)
(* One invocation of the tool (run / build / start / stop of a target) is  *)
(* a call stack of frames that walks the requires graph; the files under   *)
(* .taskrunner and the declared input and output files persist between     *)
(* invocations.  A signal-watcher thread drains the cleanup stack.         *)
(***************************************************************************)
EXTENDS Integers, Sequences, FiniteSets, TLC

\* Bounds of the model: invocations of the tool, and edits of files by the user.
MaxRuns == 2
MaxEdits == 1
\* Bound of the supervisor model: processes spawned.
MaxSpawns == 2
\* start and stop calls on the daemon
MaxCalls == 2
\* the longest a stop call is followed, in units of 100 ms
MaxElapsed == 112
\* the targets declared by a configuration that is looked up in
MaxTargets == 3
\* the targets declared by a configuration whose references are resolved
MaxDeclared == 2
\* the requires entries and extends of a configuration
MaxRefs == 2
\* the targets of a configuration with inheritance
MaxChain == 2
\* the fields set in its tables, beside the required scalar of the first
MaxFields == 2
\* the calls that the stack of the process holds
MaxDepth == 4
\* the pieces of a text that is expanded
MaxPieces == 3
\* the required targets of the target whose scope ends
MaxRequired == 3
\* the patterns of the triggers that are watched
MaxPatterns == 3
\* the batches of events that the watch loop receives
MaxBatches == 1
\* the lines that the child of a build writes, and the lines its pipe holds
MaxLines == 3
PipeCap == 1
\* the entries of a list of modification times
MaxTimes == 3

(***************************************************************************)
(* The configuration: the target records after resolution.                 *)
(***************************************************************************)
Targets == {"lib", "app", "web", "img", "db", "all"}
Files == {"src", "main", "out1", "out2"}

\* TargetInfo.requires, in declaration order
requires(t) ==
    CASE t = "lib" -> << >>
      [] t = "app" -> <<"lib">>
      [] t = "web" -> << >>
      [] t = "img" -> <<"web">>
      [] t = "db"  -> << >>
      [] t = "all" -> <<"db", "app">>

\* Target::Artifact / Command::Exec / Command::Container
kind(t) ==
    CASE t \in {"lib", "app", "img"} -> "artifact"
      [] t = "web"            -> "container"
      [] OTHER                -> "exec"

\* CommandInfo.daemon; command_info() is None for an artifact
daemon(t) == t = "db"

\* ContainerCommand.create_network (with network unset)
create_network(t) == t = "web"

\* Option<Vec<String>> is a record: some = FALSE is None
NoPaths == [some |-> FALSE, v |-> << >>]
SomePaths(v) == [some |-> TRUE, v |-> v]

\* ArtifactInfo.updates_paths
updates_paths(t) ==
    CASE t = "lib" -> SomePaths(<<"out1", "out2">>)
      [] OTHER     -> NoPaths

VARIABLES
    now,        \* the clock that stamps file modifications
    mtime,      \* declared input and output files: 0 = absent, else mtime
    sentinel,   \* .taskrunner/<t>/last_run: 0 = absent, else mtime
    pid,        \* .taskrunner/<t>/pid: "none", or "alive" (names a live process)
    stack,      \* the orchestrator's call stack; << >> = no invocation running
    cleanups,   \* CleanupManager.cleanups
    pushed,     \* number of cleanups pushed by this invocation (entry ids)
    watcher,    \* signal-watcher thread: parked, draining, panicked
    drain0,     \* history: the cleanup stack when the drain began
    ran,        \* history: the cleanup entries executed by the drain, in order
    runs,       \* invocations so far
    edits,      \* user edits so far
    \* the process supervisor in detail (src/src/commands.rs)
    pidfile,    \* contents of the pid file of the daemon: 0 = absent, else a pid
    logfile,    \* number of times the log file of the daemon was created
    procs,      \* the process table: pid -> process record
    own,        \* the pids that are children of the running invocation
    call,       \* the start or stop call in progress, and its history
    \* the command line (src/src/cmd)
    last,       \* the subcommand last executed and its error
    \* the name registry (src/src/context.rs)
    reg,        \* the configuration, the context loaded from it, the last lookup
    \* inheritance (src/src/context.rs, src/src/default.rs)
    ext,        \* the configuration with its fields, and the records made of it
    \* the substitution engine (src/src/context.rs)
    subst,      \* the call of resolve_substitutions: its inputs and its result
    \* the teardown of a scope (src/src/runner.rs)
    td,         \* the call of run_target: the walk's result, the to_stop list
    \* the watch engine (src/src/watch.rs)
    roots,      \* the call of find_matching_paths: patterns and watch roots
    \* the dependency walk over a requires graph with cycles
    cyc,        \* the call stack, and what was executed
    \* watch mode (src/src/watch.rs, src/src/cmd/watch.rs)
    trig,       \* the triggers of get_all, the batch and what was dispatched
    \* the build of a container image (src/src/targets/artifact)
    img,        \* child, reader thread, channel and outputs store
    \* the update times (src/src/target.rs)
    lut,        \* the call of latest_update_time: its list and its result
    \* two invocations of start at once (src/src/commands.rs)
    starts      \* the two processes, the pid file and the daemons spawned

vars == <<now, mtime, sentinel, pid, stack, cleanups, pushed, watcher, drain0,
          ran, runs, edits>>

\* the variables of the parts of the program that the dependency walk does
\* not touch
more == <<trig, img, lut, starts>>

rest == <<ext, subst, td, roots, cyc, more>>

others == <<pidfile, logfile, procs, own, call, last, reg, rest>>

allvars == <<vars, others>>

\* the configuration in which the artifact t is declared without
\* if_files_changed
Undeclared(t) == [st |-> "undeclared", t |-> t]

\* ArtifactInfo.if_files_changed
if_files_changed(t) ==
    IF img = Undeclared(t) THEN NoPaths
    ELSE CASE t = "lib" -> SomePaths(<<"src">>)
           [] t = "app" -> SomePaths(<<"main">>)
           [] t = "img" -> SomePaths(<<"main">>)
           [] OTHER     -> NoPaths

(***************************************************************************)
(* Sequences                                                               *)
(***************************************************************************)
Reverse(s) == [k \in 1..Len(s) |-> s[Len(s) + 1 - k]]
Range(s) == {s[k] : k \in 1..Len(s)}
Top == stack[Len(stack)]
Idle == stack = << >>

RECURSIVE Flatten(_)
Flatten(ss) == IF ss = << >> THEN << >> ELSE Head(ss) \o Flatten(Tail(ss))


\* the lists with the same entries in another order
Reorderings(list) ==
    {[k \in DOMAIN list |-> list[f[k]]] :
        f \in {g \in [DOMAIN list -> DOMAIN list] :
                  \A i \in DOMAIN list : \E j \in DOMAIN list : g[j] = i}}

(***************************************************************************)
(* Staleness oracle                                                        *)
(***************************************************************************)
\* LastRun::Never; LastRun::Time(m) is the positive integer m
Never == 0

\* the fold of latest_update_time; acc = -1 is the fold's initial None
RECURSIVE FoldLatest(_, _)
FoldLatest(acc, times) ==
    IF times = << >> THEN acc
    ELSE LET t == Head(times)
             next == IF acc = Never THEN Never
                     ELSE IF t = Never THEN Never
                     ELSE IF acc = -1 THEN t
                     ELSE IF t > acc THEN t ELSE acc
         IN  FoldLatest(next, Tail(times))

\* (mutant) the earliest of the times instead of the latest
earliest_update_time(times) ==
    IF times = << >> \/ \E k \in 1..Len(times) : times[k] = Never THEN Never
    ELSE CHOOSE x \in Range(times) : \A y \in Range(times) : x <= y

\* (mutant) the entries that are Never are passed over
latest_update_time_of_known(times) ==
    LET known == {t \in Range(times) : t # Never}
    IN  IF known = {} THEN Never
        ELSE CHOOSE x \in known : \A y \in known : x >= y

latest_update_time(times) ==
    LET r == FoldLatest(-1, times) IN IF r = -1 THEN Never ELSE r

\* glob() yields the paths that exist; each is then stat'ed
update_times_of_glob(glob_str) ==
    IF mtime[glob_str] > 0 THEN <<mtime[glob_str]>> ELSE << >>

update_times_of_glob_ignoring_missing(glob_str) ==
    IF mtime[glob_str] > 0 THEN <<mtime[glob_str]>> ELSE << >>

latest_update_time_of_paths(paths) ==
    latest_update_time(
        Flatten([k \in 1..Len(paths) |-> update_times_of_glob(paths[k])]))

latest_update_time_of_paths_ignoring_missing(paths) ==
    latest_update_time(
        Flatten([k \in 1..Len(paths) |->
                    update_times_of_glob_ignoring_missing(paths[k])]))

last_run(t) ==
    IF updates_paths(t).some
    THEN latest_update_time_of_paths(updates_paths(t).v)
    ELSE sentinel[t]

\* (mutant) the sentinels of the requirements are not looked at
RequiredNewerIgnored(reqs, lr) == FALSE

\* the loop of should_rerun over the resolved requirements
RECURSIVE RequiredNewer(_, _)
RequiredNewer(reqs, lr) ==
    IF reqs = << >> THEN FALSE
    ELSE LET r == Head(reqs)
             again == IF sentinel[r] = 0 THEN TRUE ELSE sentinel[r] > lr
         IN  again \/ RequiredNewer(Tail(reqs), lr)

\* (mutant) an artifact without if_files_changed is built once
should_rerun_once(t) ==
    LET lr == last_run(t) IN
    IF lr = Never THEN TRUE
    ELSE IF if_files_changed(t).some
    THEN LET deps == latest_update_time_of_paths_ignoring_missing(
                         if_files_changed(t).v)
             run_again == deps # Never /\ deps > lr
         IN  IF run_again THEN TRUE ELSE RequiredNewer(requires(t), lr)
    ELSE FALSE

should_rerun(t) ==
    IF if_files_changed(t).some
    THEN LET lr == last_run(t) IN
         IF lr # Never
         THEN LET deps == latest_update_time_of_paths_ignoring_missing(
                              if_files_changed(t).v)
                  run_again == deps # Never /\ deps > lr
              IN  IF run_again THEN TRUE ELSE RequiredNewer(requires(t), lr)
         ELSE TRUE
    ELSE TRUE

(***************************************************************************)
(* Frames of the orchestrator                                              *)
(***************************************************************************)
\* the arm of the match in run_required that a required target takes
required_op(r) ==
    IF kind(r) = "artifact" THEN "build"
    ELSE IF daemon(r) THEN "start"
    ELSE "run"

\* the transitive requires of a target
RECURSIVE TransReq(_)
TransReq(t) ==
    Range(requires(t)) \cup UNION {TransReq(r) : r \in Range(requires(t))}

\* the inputs of t, its outputs and the sentinels of its requirements are
\* all older than the sentinel of t (history, read by the properties only)
Settled(t) ==
    /\ sentinel[t] > 0
    /\ \A k \in 1..Len(if_files_changed(t).v) :
           mtime[if_files_changed(t).v[k]] < sentinel[t]
    /\ \A k \in 1..Len(updates_paths(t).v) :
           /\ mtime[updates_paths(t).v[k]] > 0
           /\ mtime[updates_paths(t).v[k]] < sentinel[t]
    /\ \A k \in 1..Len(requires(t)) :
           /\ sentinel[requires(t)[k]] > 0
           /\ sentinel[requires(t)[k]] < sentinel[t]

\* A call of Runnable::run / Buildable::build / Startable::start on target t.
\* i: index of the next requirement; ph: position in the call; res: its
\* result; to_stop: the scope-local list.  begun (the terminal action has
\* been started), beg, fin, started, stopped, s0, c0, pre and lr are history
\* fields, read by the properties only.
NewFrame(t, op) ==
    [t |-> t, op |-> op, i |-> 1, ph |-> "req", res |-> "none",
     to_stop |-> << >>, begun |-> FALSE,
     beg |-> << >>, fin |-> << >>, started |-> << >>, stopped |-> << >>,
     args |-> << >>, s0 |-> sentinel[t], c0 |-> cleanups, lr |-> 0,
     pre |-> \A u \in {t} \cup TransReq(t) :
                 kind(u) = "artifact" => Settled(u)]

SetTop(f) == [stack EXCEPT ![Len(stack)] = f]

\* no daemon was ever started and no subcommand was executed
Pids == 1..MaxSpawns
NoProc == [st |-> "none", stubborn |-> FALSE, doomed |-> FALSE, died |-> "no"]
NoCall == [op |-> "none", pc |-> "ret", n |-> 0]
NoLast == [op |-> "none"]

\* nothing declared, nothing loaded, nothing looked up
NoReg == [config |-> << >>, ctx |-> [st |-> "unloaded"], look |-> [cmd |-> "none"]]

SupInit ==
    /\ pidfile = 0
    /\ logfile = 0
    /\ procs = [p \in Pids |-> NoProc]
    /\ own = {}
    /\ call = NoCall
    /\ last = NoLast

\* no call of the later parts of the program has been made
Nothing == [st |-> "none"]

MoreInit ==
    /\ trig = Nothing
    /\ img = Nothing
    /\ lut = Nothing
    /\ starts = Nothing

RestInit ==
    /\ MoreInit
    /\ ext = Nothing
    /\ subst = Nothing
    /\ td = Nothing
    /\ roots = Nothing
    /\ cyc = Nothing

OthersInit ==
    /\ SupInit
    /\ reg = NoReg
    /\ RestInit

VarsInit ==
    /\ now = 1
    /\ mtime = [f \in Files |-> 0]
    /\ sentinel = [t \in Targets |-> 0]
    /\ pid = [t \in Targets |-> "none"]
    /\ stack = << >>
    /\ cleanups = << >>
    /\ pushed = 0
    /\ watcher = "parked"
    /\ drain0 = << >>
    /\ ran = << >>
    /\ runs = 0
    /\ edits = 0

Init ==
    /\ VarsInit
    /\ OthersInit

(***************************************************************************)
(* Invocations (src/src/cmd)                                               *)
(***************************************************************************)
\* (mutant) as_buildable is Some for a command as well
CanInvokeBuildAny(op, t) ==
    \/ op = "run"
    \/ op = "build"
    \/ op = "start" /\ kind(t) # "artifact"

\* cmd run / build / start: as_runnable is Some for every target, as_buildable
\* for an artifact, as_startable for a command
CanInvoke(op, t) ==
    \/ op = "run"
    \/ op = "build" /\ kind(t) = "artifact"
    \/ op = "start" /\ kind(t) # "artifact"

\* the subcommand calls run / build / start of the target with its arguments
InvokeWith(op, t, args) ==
    /\ Idle
    /\ runs < MaxRuns
    /\ CanInvoke(op, t)
    /\ stack' = <<[NewFrame(t, op) EXCEPT !.args = args]>>
    /\ runs' = runs + 1
    /\ UNCHANGED <<now, mtime, sentinel, pid, cleanups, pushed, watcher,
                   drain0, ran, edits>>

\* a subcommand given no arguments
Invoke(op, t) ==
    /\ InvokeWith(op, t, << >>)
    /\ UNCHANGED others

\* cmd stop: Startable::stop through the pid file.  Without a pid file it
\* fails with "Task not running" and changes nothing: a stuttering step.
Stop(t) ==
    /\ Idle
    /\ runs < MaxRuns
    /\ kind(t) # "artifact"
    /\ pid[t] # "none"
    /\ pid' = [pid EXCEPT ![t] = "none"]
    /\ runs' = runs + 1
    /\ UNCHANGED <<now, mtime, sentinel, stack, cleanups, pushed, watcher,
                   drain0, ran, edits>>
    /\ UNCHANGED others

\* the end of the process with an exit code: its memory (call stack, cleanup
\* stack, watcher thread) is gone
ProcessExit(code) ==
    /\ stack' = << >>
    /\ cleanups' = << >>
    /\ pushed' = 0
    /\ watcher' = "parked"
    /\ drain0' = << >>
    /\ ran' = << >>

(***************************************************************************)
(* The dependency walk (run_required) and the terminal actions             *)
(***************************************************************************)
\* (mutant) the arguments of the caller are passed on to the requirement
DispatchForwarding ==
    /\ ~Idle
    /\ Top.ph = "req"
    /\ Top.i <= Len(requires(Top.t))
    /\ LET r == requires(Top.t)[Top.i]
           f == [Top EXCEPT !.beg = Append(@, r)]
       IN  stack' = Append(SetTop(f), [NewFrame(r, required_op(r))
                                          EXCEPT !.args = Top.args])
    /\ UNCHANGED <<now, mtime, sentinel, pid, cleanups, pushed, watcher,
                   drain0, ran, runs, edits>>
    /\ UNCHANGED others

\* one iteration of the loop of run_required: call build, or start or run
\* with vec![], of the next required target
Dispatch ==
    /\ ~Idle
    /\ Top.ph = "req"
    /\ Top.i <= Len(requires(Top.t))
    /\ LET r == requires(Top.t)[Top.i]
           f == [Top EXCEPT !.beg = Append(@, r)]
       IN  stack' = Append(SetTop(f), [NewFrame(r, required_op(r))
                                          EXCEPT !.args = << >>])
    /\ UNCHANGED <<now, mtime, sentinel, pid, cleanups, pushed, watcher,
                   drain0, ran, runs, edits>>
    /\ UNCHANGED others

\* (mutant) the loop ends one requirement early
RequiredDoneEarly ==
    ~Idle /\ Top.ph = "req" /\ Top.i >= Len(requires(Top.t))

\* the loop of run_required has ended: every requirement returned Ok
RequiredDone == ~Idle /\ Top.ph = "req" /\ Top.i > Len(requires(Top.t))

\* (mutant) run of an artifact checks staleness as build does
BuildDecideChecked ==
    /\ RequiredDone
    /\ kind(Top.t) = "artifact"
    /\ LET f == [Top EXCEPT !.lr = IF if_files_changed(Top.t).some
                                   THEN last_run(Top.t) ELSE 0]
       IN  IF ~should_rerun(Top.t)
           THEN stack' = SetTop([f EXCEPT !.ph = "skip", !.res = "ok"])
           ELSE stack' = SetTop([f EXCEPT !.ph = "act", !.begun = TRUE])
    /\ UNCHANGED <<now, mtime, sentinel, pid, cleanups, pushed, watcher,
                   drain0, ran, runs, edits>>
    /\ UNCHANGED others

\* Artifact::build_target_inner after run_required: the staleness check
\* (check_should_rerun: true from build, false from run), and the start of
\* the build command
BuildDecide ==
    /\ RequiredDone
    /\ kind(Top.t) = "artifact"
    /\ LET check == Top.op = "build"
           f == [Top EXCEPT !.lr = IF check /\ if_files_changed(Top.t).some
                                   THEN last_run(Top.t) ELSE 0]
       IN  IF check /\ ~should_rerun(Top.t)
           THEN stack' = SetTop([f EXCEPT !.ph = "skip", !.res = "ok"])
           ELSE stack' = SetTop([f EXCEPT !.ph = "act", !.begun = TRUE])
    /\ UNCHANGED <<now, mtime, sentinel, pid, cleanups, pushed, watcher,
                   drain0, ran, runs, edits>>
    /\ UNCHANGED others

\* Command::run_target_inner after run_required, exec command: spawn the
\* command in the foreground
RunExec ==
    /\ RequiredDone
    /\ kind(Top.t) = "exec"
    /\ Top.op = "run"
    /\ stack' = SetTop([Top EXCEPT !.ph = "act", !.begun = TRUE])
    /\ UNCHANGED <<now, mtime, sentinel, pid, cleanups, pushed, watcher,
                   drain0, ran, runs, edits>>
    /\ UNCHANGED others

\* ContainerCommand::run: the pre_commands (podman network create)
RunContainerPre ==
    /\ RequiredDone
    /\ kind(Top.t) = "container"
    /\ Top.op = "run"
    /\ \/ stack' = SetTop([Top EXCEPT !.begun = TRUE, !.ph =
                              IF create_network(Top.t) THEN "push1" ELSE "push2"])
       \/ /\ create_network(Top.t)
          /\ stack' = SetTop([Top EXCEPT !.begun = TRUE, !.ph = "td",
                                         !.res = "err"])
    /\ UNCHANGED <<now, mtime, sentinel, pid, cleanups, pushed, watcher,
                   drain0, ran, runs, edits>>
    /\ UNCHANGED others

\* CleanupManager::push_cleanup
push_cleanup(name, owner) ==
    /\ cleanups' = Append(cleanups, [name |-> name, owner |-> owner,
                                     id |-> pushed + 1])
    /\ pushed' = pushed + 1

\* CleanupManager::pop_cleanup (called by run_command_with_cleanup only,
\* which no run path calls)
pop_cleanup == cleanups' = SubSeq(cleanups, 1, Len(cleanups) - 1)

\* ContainerCommand::run: cleanup_manager.lock().unwrap().push_cleanup(..) for
\* the post stop command, then for the container; then podman run.  The lock
\* is the watcher's while it drains; a poisoned lock panics the caller.
PushCleanup ==
    /\ ~Idle
    /\ Top.ph \in {"push1", "push2"}
    /\ watcher # "draining"
    /\ IF watcher = "panicked"
       THEN ProcessExit("101")
       ELSE /\ IF Top.ph = "push1"
               THEN /\ push_cleanup("clean_up_network", Top.t)
                    /\ stack' = SetTop([Top EXCEPT !.ph = "push2"])
               ELSE /\ push_cleanup("stop_container", Top.t)
                    /\ stack' = SetTop([Top EXCEPT !.ph = "act"])
            /\ UNCHANGED <<watcher, drain0, ran>>
    /\ UNCHANGED <<now, mtime, sentinel, pid, runs, edits>>
    /\ UNCHANGED others

\* the files a successful build command writes: its declared outputs
TouchOutputs(t) ==
    [f \in Files |-> IF f \in Range(updates_paths(t).v) THEN now ELSE mtime[f]]

\* (mutant) the result of the command is not checked: Err goes on like Ok
ActEndUnchecked ==
    /\ ~Idle
    /\ Top.ph = "act"
    /\ \/ /\ stack' = SetTop([Top EXCEPT !.ph = "done", !.res = "ok"])
          /\ IF kind(Top.t) = "artifact" /\ updates_paths(Top.t).some
             THEN mtime' = TouchOutputs(Top.t) /\ now' = now + 1
             ELSE UNCHANGED <<mtime, now>>
       \/ /\ stack' = SetTop([Top EXCEPT !.ph = "done", !.res = "err"])
          /\ UNCHANGED <<mtime, now>>
    /\ UNCHANGED <<sentinel, pid, cleanups, pushed, watcher, drain0, ran,
                   runs, edits>>
    /\ UNCHANGED others

\* the foreground child exits: run_command returns Ok or Err
ActEnd ==
    /\ ~Idle
    /\ Top.ph = "act"
    /\ \/ /\ stack' = SetTop([Top EXCEPT !.ph = "done", !.res = "ok"])
          /\ IF kind(Top.t) = "artifact" /\ updates_paths(Top.t).some
             THEN mtime' = TouchOutputs(Top.t) /\ now' = now + 1
             ELSE UNCHANGED <<mtime, now>>
       \/ /\ stack' = SetTop([Top EXCEPT !.ph = "td", !.res = "err"])
          /\ UNCHANGED <<mtime, now>>
    /\ UNCHANGED <<sentinel, pid, cleanups, pushed, watcher, drain0, ran,
                   runs, edits>>
    /\ UNCHANGED others

\* File::create(last_run_path(..)) after the terminal action returned Ok
TouchSentinel ==
    /\ ~Idle
    /\ Top.ph = "done"
    /\ sentinel' = [sentinel EXCEPT ![Top.t] = now]
    /\ now' = now + 1
    /\ stack' = SetTop([Top EXCEPT !.ph = "td"])
    /\ UNCHANGED <<mtime, pid, cleanups, pushed, watcher, drain0, ran,
                   runs, edits>>
    /\ UNCHANGED others

\* Command::start_target_inner after run_required: spawn_command_with_pidfile
StartSpawn ==
    /\ RequiredDone
    /\ Top.op = "start"
    /\ LET f == [Top EXCEPT !.begun = TRUE, !.ph = "td"]
       IN  IF pid[Top.t] = "alive"
           THEN /\ stack' = SetTop([f EXCEPT !.res = "err"])
                /\ pid' = pid
           ELSE \/ /\ stack' = SetTop([f EXCEPT !.res = "ok"])
                   /\ pid' = [pid EXCEPT ![Top.t] = "alive"]
                \/ /\ stack' = SetTop([f EXCEPT !.res = "err"])
                   /\ pid' = pid
    /\ UNCHANGED <<now, mtime, sentinel, cleanups, pushed, watcher, drain0,
                   ran, runs, edits>>
    /\ UNCHANGED others

\* the loop over the reversed to_stop list in run / build / start: stop each
RECURSIVE StopAll(_, _)
StopAll(ts, p) ==
    IF ts = << >> THEN p
    ELSE StopAll(Tail(ts), [p EXCEPT ![Head(ts)] = "none"])

Teardown ==
    /\ ~Idle
    /\ Top.ph \in {"td", "skip"}
    /\ LET order == Reverse(Top.to_stop)
       IN  /\ pid' = StopAll(order, pid)
           /\ stack' = SetTop([Top EXCEPT !.ph = "ret", !.stopped = order])
    /\ UNCHANGED <<now, mtime, sentinel, cleanups, pushed, watcher, drain0,
                   ran, runs, edits>>
    /\ UNCHANGED others

\* the call returns: to the loop of run_required of the caller, where Err
\* ends the caller's walk, or, from the root, to main, which exits
Return ==
    /\ ~Idle
    /\ Top.ph = "ret"
    /\ IF Len(stack) = 1
       THEN /\ ProcessExit(IF Top.res = "ok" THEN "0" ELSE "1")
       ELSE LET c == Top
                p == stack[Len(stack) - 1]
                q == IF c.res = "ok"
                     THEN [p EXCEPT !.i = @ + 1,
                                    !.fin = Append(@, c.t),
                                    !.started = IF c.op = "start"
                                                THEN Append(@, c.t) ELSE @]
                     ELSE [p EXCEPT !.ph = "td", !.res = "err"]
            IN  /\ stack' = Append(SubSeq(stack, 1, Len(stack) - 2), q)
                /\ UNCHANGED <<cleanups, pushed, watcher, drain0, ran>>
    /\ UNCHANGED <<now, mtime, sentinel, pid, runs, edits>>
    /\ UNCHANGED others

(***************************************************************************)
(* The signal watcher and the cleanup stack                                *)
(***************************************************************************)
\* a stop signal: the watcher thread locks the cleanup stack and drains it
Signal ==
    /\ ~Idle
    /\ watcher = "parked"
    /\ watcher' = "draining"
    /\ drain0' = cleanups
    /\ ran' = << >>
    /\ UNCHANGED <<now, mtime, sentinel, pid, stack, cleanups, pushed,
                   runs, edits>>
    /\ UNCHANGED others

\* one iteration of the loop of run_cleanups: cleanups.drain(..) yields the
\* entries from the front; a thunk that fails panics (unwrap), and the
\* unwinding drops the entries not yet yielded
run_cleanups ==
    /\ ~Idle
    /\ watcher = "draining"
    /\ cleanups # << >>
    /\ ran' = Append(ran, Head(cleanups))
    /\ \/ cleanups' = Tail(cleanups) /\ watcher' = watcher
       \/ cleanups' = << >> /\ watcher' = "panicked"
    /\ UNCHANGED <<now, mtime, sentinel, pid, stack, pushed, drain0,
                   runs, edits>>
    /\ UNCHANGED others

\* after the drain the watcher exits the process with code 130
WatcherExit ==
    /\ ~Idle
    /\ watcher = "draining"
    /\ cleanups = << >>
    /\ ProcessExit("130")
    /\ UNCHANGED <<now, mtime, sentinel, pid, runs, edits>>
    /\ UNCHANGED others

\* the process is killed (SIGKILL, power loss) at any point
Crash ==
    /\ ~Idle
    /\ ProcessExit("killed")
    /\ UNCHANGED <<now, mtime, sentinel, pid, runs, edits>>
    /\ UNCHANGED others

(***************************************************************************)
(* The user                                                                *)
(***************************************************************************)
\* the user writes a declared input or output file between invocations
Edit(f) ==
    /\ Idle
    /\ edits < MaxEdits
    /\ mtime' = [mtime EXCEPT ![f] = now]
    /\ now' = now + 1
    /\ edits' = edits + 1
    /\ UNCHANGED <<sentinel, pid, stack, cleanups, pushed, watcher, drain0,
                   ran, runs>>
    /\ UNCHANGED others

Next ==
    \/ \E op \in {"run", "build", "start"}, t \in Targets : Invoke(op, t)
    \/ \E t \in Targets : Stop(t)
    \/ Dispatch
    \/ BuildDecide
    \/ RunExec
    \/ RunContainerPre
    \/ PushCleanup
    \/ ActEnd
    \/ TouchSentinel
    \/ StartSpawn
    \/ Teardown
    \/ Return
    \/ Signal
    \/ run_cleanups
    \/ WatcherExit
    \/ Crash
    \/ \E f \in Files : Edit(f)

Spec == Init /\ [][Next]_vars

\* The dependency walk alone: no stop signal arrives, so the watcher stays
\* parked; the process can still die at any point (Crash).
NextWalk ==
    \/ \E op \in {"run", "build", "start"}, t \in Targets : Invoke(op, t)
    \/ \E t \in Targets : Stop(t)
    \/ Dispatch
    \/ BuildDecide
    \/ RunExec
    \/ RunContainerPre
    \/ PushCleanup
    \/ ActEnd
    \/ TouchSentinel
    \/ StartSpawn
    \/ Teardown
    \/ Return
    \/ Crash
    \/ \E f \in Files : Edit(f)

SpecWalk == Init /\ [][NextWalk]_vars

\* the same configuration with one of the artifacts declared without
\* if_files_changed
InitUndeclared ==
    /\ VarsInit
    /\ SupInit
    /\ reg = NoReg
    /\ ext = Nothing /\ subst = Nothing /\ td = Nothing /\ roots = Nothing
    /\ cyc = Nothing /\ trig = Nothing /\ lut = Nothing /\ starts = Nothing
    /\ \E t \in {u \in Targets : kind(u) = "artifact"} : img = Undeclared(t)

\* build and run of the artifacts; the process runs to its end
NextUndeclared ==
    \/ \E op \in {"run", "build"}, t \in {u \in Targets : kind(u) = "artifact"} :
           Invoke(op, t)
    \/ Dispatch
    \/ BuildDecide
    \/ RunContainerPre
    \/ PushCleanup
    \/ ActEnd
    \/ TouchSentinel
    \/ Teardown
    \/ Return
    \/ \E f \in Files : Edit(f)

SpecUndeclared == InitUndeclared /\ [][NextUndeclared]_vars

(***************************************************************************)
(* The process supervisor: start and stop of one daemon through its pid    *)
(* file (src/src/commands.rs, src/src/runner.rs).  Time is counted in      *)
(* units of 100 ms.  A process record: st is "none" (pid never used),      *)
(* "run", "exited" or "signaled" (a zombie: dead, not yet reaped by its    *)
(* parent) or "gone"; stubborn: it ignores SIGTERM; doomed: a signal that  *)
(* ends it has been delivered; died (history): "early" if it died within   *)
(* KillAfter of the stop call that signals it, "late" if after.  In a call *)
(* record, pid0, log0, alive0 (the pid file named a running process when   *)
(* the call began), child, first, term, kill, kill_early, kill_exited,     *)
(* since and gap are history, read by the properties only.                 *)
(***************************************************************************)
\* Duration::from_secs(10) in stop_process
KillAfter == 100
\* thread::sleep(Duration::from_secs(1)) in stop_process
Sleep == 10

\* kill(pid, None) succeeds for a running process and for a zombie
is_process_alive(p) == procs[p].st \in {"run", "exited", "signaled"}

CallIdle == call.pc = "ret"

\* the fields of a call record that every call has
NewCall(op) ==
    [op |-> op, pc |-> "ret", n |-> call.n + 1, res |-> "none",
     pid |-> 0, pid0 |-> pidfile, log0 |-> logfile,
     alive0 |-> pidfile # 0 /\ procs[pidfile].st = "run",
     child |-> pidfile \in own,
     spawned |-> 0, elapsed |-> 0, first |-> "none", term |-> FALSE,
     kill |-> FALSE, kill_early |-> FALSE, kill_exited |-> FALSE,
     since |-> -1, gap |-> -1]

\* spawn_command_with_pidfile: the pid file is read and the process it names
\* is probed; a live one ends the call with "already running"
StartCheck ==
    /\ CallIdle
    /\ call.n < MaxCalls
    /\ LET c == NewCall("start")
       IN  IF pidfile # 0 /\ is_process_alive(pidfile)
           THEN call' = [c EXCEPT !.res = "already running"]
           ELSE call' = [c EXCEPT !.pc = "log"]
    /\ UNCHANGED <<pidfile, logfile, procs, own, last, reg, rest>>
    /\ UNCHANGED vars

\* spawn_command_with_pidfile: File::create(log_path)
StartLog ==
    /\ call.pc = "log"
    /\ logfile' = logfile + 1
    /\ call' = [call EXCEPT !.pc = "spawn"]
    /\ UNCHANGED <<pidfile, procs, own, last, reg, rest>>
    /\ UNCHANGED vars

\* spawn_command_with_pidfile: build_command and spawn; either can fail
StartChild ==
    /\ call.pc = "spawn"
    /\ \/ /\ call' = [call EXCEPT !.pc = "ret", !.res = "spawn failed"]
          /\ UNCHANGED <<procs, own>>
       \/ \E p \in Pids, b \in BOOLEAN :
             /\ procs[p].st = "none"
             /\ \A q \in Pids : q < p => procs[q].st # "none"
             /\ procs' = [procs EXCEPT ![p] = [NoProc EXCEPT !.st = "run",
                                                            !.stubborn = b]]
             /\ own' = own \cup {p}
             /\ call' = [call EXCEPT !.pc = "write", !.spawned = p]
    /\ UNCHANGED <<pidfile, logfile, last, reg, rest>>
    /\ UNCHANGED vars

\* spawn_command_with_pidfile: std::fs::write(pid_path, child.id())
StartWrite ==
    /\ call.pc = "write"
    /\ pidfile' = call.spawned
    /\ call' = [call EXCEPT !.pc = "ret", !.res = "ok"]
    /\ UNCHANGED <<logfile, procs, own, last, reg, rest>>
    /\ UNCHANGED vars

\* stop_target: read the pid file ("Task not running" without one) and probe
\* the process; stop_process is called for a live one only
StopRead ==
    /\ CallIdle
    /\ call.n < MaxCalls
    /\ LET c == [NewCall("stop") EXCEPT !.pid = pidfile]
       IN  IF pidfile = 0
           THEN call' = [c EXCEPT !.res = "not running"]
           ELSE IF is_process_alive(pidfile)
                THEN call' = [c EXCEPT !.pc = "term"]
                ELSE call' = [c EXCEPT !.pc = "remove"]
    /\ UNCHANGED <<pidfile, logfile, procs, own, last, reg, rest>>
    /\ UNCHANGED vars

\* kill(pid, signal): Ok for a process that exists (a zombie included), which
\* a signal it does not ignore dooms; ESRCH for one that is gone
Deliver(p, signal) ==
    IF procs[p].st = "run" /\ (signal = "KILL" \/ ~procs[p].stubborn)
    THEN [procs EXCEPT ![p].doomed = TRUE]
    ELSE procs

\* stop_process: send_signal(pid, SIGTERM)?
StopTerm ==
    /\ call.pc = "term"
    /\ IF is_process_alive(call.pid)
       THEN /\ procs' = Deliver(call.pid, "TERM")
            /\ call' = [call EXCEPT !.pc = "loop", !.term = TRUE,
                                    !.first = "TERM"]
       ELSE /\ call' = [call EXCEPT !.pc = "ret", !.res = "signal failed",
                                    !.elapsed = 0]
            /\ UNCHANGED procs
    /\ UNCHANGED <<pidfile, logfile, own, last, reg, rest>>
    /\ UNCHANGED vars

\* stop_process: while is_process_alive(pid)
StopLoop ==
    /\ call.pc = "loop"
    /\ call' = [call EXCEPT !.gap = call.since,
                            !.since = 0,
                            !.pc = IF is_process_alive(call.pid)
                                   THEN "escalate" ELSE "remove"]
    /\ UNCHANGED <<pidfile, logfile, procs, own, last, reg, rest>>
    /\ UNCHANGED vars

\* (mutant) SIGKILL is never due
never_due(elapsed) == FALSE

\* stop_process: start.elapsed() > Duration::from_secs(10)
kill_due(elapsed) == elapsed > KillAfter

\* stop_process: the escalation to SIGKILL in the loop
StopEscalate ==
    /\ call.pc = "escalate"
    /\ IF kill_due(call.elapsed)
       THEN IF is_process_alive(call.pid)
            THEN /\ procs' = Deliver(call.pid, "KILL")
                 /\ call' = [call EXCEPT
                        !.pc = "wait",
                        !.first = IF call.first = "none" THEN "KILL" ELSE @,
                        !.kill_early = @ \/ call.elapsed <= KillAfter,
                        !.kill_exited = @ \/ procs[call.pid].died = "early",
                        !.kill = TRUE]
            ELSE /\ call' = [call EXCEPT !.pc = "ret", !.res = "signal failed",
                                         !.elapsed = 0]
                 /\ UNCHANGED procs
       ELSE /\ call' = [call EXCEPT !.pc = "wait"]
            /\ UNCHANGED procs
    /\ UNCHANGED <<pidfile, logfile, own, last, reg, rest>>
    /\ UNCHANGED vars

\* the time a call has taken, which the model follows up to MaxElapsed
Later(e, d) == IF e + d > MaxElapsed THEN MaxElapsed ELSE e + d

\* the time since the last probe of the process: -1 before the first probe,
\* else 0, 1 or 2 (200 ms or more)
Since(x, d) == IF x < 0 THEN x ELSE IF x + d > 2 THEN 2 ELSE x + d

\* stop_process: waitpid(pid, WNOHANG).  ECHILD (not a child of this
\* process): Ok(None), and the loop goes round at once.  Exited: break.  Any
\* other status (StillAlive, Signaled): sleep one second.
StopWait ==
    /\ call.pc = "wait"
    /\ LET p == call.pid IN
       IF p \notin own
       THEN /\ call' = [call EXCEPT !.pc = "loop"]
            /\ UNCHANGED procs
       ELSE IF procs[p].st = "exited"
       THEN /\ procs' = [procs EXCEPT ![p].st = "gone"]
            /\ call' = [call EXCEPT !.pc = "remove"]
       ELSE /\ procs' = IF procs[p].st = "signaled"
                        THEN [procs EXCEPT ![p].st = "gone"] ELSE procs
            /\ call' = [call EXCEPT !.pc = "loop",
                                    !.elapsed = Later(@, Sleep),
                                    !.since = Since(@, Sleep)]
    /\ own' = IF call.pid \in own /\ procs[call.pid].st \in {"exited", "signaled"}
              THEN own \ {call.pid} ELSE own
    /\ UNCHANGED <<pidfile, logfile, last, reg, rest>>
    /\ UNCHANGED vars

\* stop_target: std::fs::remove_file(pid_path)
StopRemove ==
    /\ call.pc = "remove"
    /\ pidfile' = 0
    /\ call' = [call EXCEPT !.pc = "ret", !.res = "ok", !.elapsed = 0]
    /\ UNCHANGED <<logfile, procs, own, last, reg, rest>>
    /\ UNCHANGED vars

\* 100 ms pass while a stop call is in progress
Tick ==
    /\ call.op = "stop"
    /\ call.pc # "ret"
    /\ call.elapsed < MaxElapsed
    /\ call' = [call EXCEPT !.elapsed = @ + 1, !.since = Since(@, 1)]
    /\ UNCHANGED <<pidfile, logfile, procs, own, last, reg, rest>>
    /\ UNCHANGED vars

\* a process ends: a child of the running invocation stays as a zombie until
\* it is reaped, any other process is reaped by init
Dead(p, how) ==
    [procs EXCEPT
        ![p].st = IF p \in own THEN how ELSE "gone",
        ![p].died = IF call.op = "stop" /\ call.pc # "ret" /\ call.pid = p
                    THEN IF call.elapsed <= KillAfter THEN "early" ELSE "late"
                    ELSE "no"]

\* a daemon exits by itself
Exits(p) ==
    /\ procs[p].st = "run"
    /\ procs' = Dead(p, "exited")
    /\ UNCHANGED <<pidfile, logfile, own, call, last, reg, rest>>
    /\ UNCHANGED vars

\* a daemon ends on the signal delivered to it: killed by it, or, for
\* SIGTERM, also exiting from its handler
Ends(p) ==
    /\ procs[p].st = "run"
    /\ procs[p].doomed
    /\ \E how \in {"exited", "signaled"} :
          /\ how = "exited" => ~call.kill
          /\ procs' = Dead(p, how)
    /\ UNCHANGED <<pidfile, logfile, own, call, last, reg, rest>>
    /\ UNCHANGED vars

\* the invocation ends (main returns): its children are orphans from now on
Orphan ==
    /\ CallIdle
    /\ own # {}
    /\ own' = {}
    /\ procs' = [p \in Pids |->
                    IF p \in own /\ procs[p].st \in {"exited", "signaled"}
                    THEN [procs[p] EXCEPT !.st = "gone"] ELSE procs[p]]
    /\ UNCHANGED <<pidfile, logfile, call, last, reg, rest>>
    /\ UNCHANGED vars

NextSup ==
    \/ StartCheck
    \/ StartLog
    \/ StartChild
    \/ StartWrite
    \/ StopRead
    \/ StopTerm
    \/ StopLoop
    \/ StopEscalate
    \/ StopWait
    \/ StopRemove
    \/ Tick
    \/ \E p \in Pids : Exits(p)
    \/ \E p \in Pids : Ends(p)
    \/ Orphan

SpecSup == Init /\ [][NextSup]_allvars

\* the scheduler runs the stopping process, time passes, and a process to
\* which a deadly signal was delivered ends
FairSup ==
    /\ WF_allvars(StopTerm)
    /\ WF_allvars(StopLoop)
    /\ WF_allvars(StopEscalate)
    /\ WF_allvars(StopWait)
    /\ WF_allvars(StopRemove)
    /\ WF_allvars(Tick)
    /\ \A p \in Pids : WF_allvars(Ends(p))

SpecSupFair == SpecSup /\ FairSup

(***************************************************************************)
(* The subcommands run, build and start with their arguments and their     *)
(* capability errors (src/src/cmd), over the dependency walk.              *)
(***************************************************************************)
\* the argument lists given on the command line
ArgLists == {<< >>, <<"x">>}

\* the error messages of the subcommands
NotCapable(op, t) ==
    IF op = "build"
    THEN <<"Target <", t, "> is not buildable, use the run command instead">>
    ELSE IF op = "start" THEN <<"Target <", t, "> is not startable">>
    ELSE <<"Target <", t, "> is not runnable">>

ArtifactArgs == <<"Artifacts do not accept arguments">>

\* Execute for RunCommand / BuildCommand / StartCommand on a target that
\* get_target found: the capability is looked up; without it the subcommand
\* fails at once.  Runnable for Artifact::run returns Err for a non-empty
\* argument list before it does anything.
Execute(op, t, args) ==
    /\ Idle
    /\ runs < MaxRuns
    /\ op = "build" => args = << >>
    /\ IF ~CanInvoke(op, t)
       THEN /\ last' = [op |-> op, t |-> t, args |-> args,
                        err |-> NotCapable(op, t)]
            /\ runs' = runs + 1
            /\ UNCHANGED <<now, mtime, sentinel, pid, stack, cleanups, pushed,
                           watcher, drain0, ran, edits>>
       ELSE IF op = "run" /\ kind(t) = "artifact" /\ args # << >>
       THEN /\ last' = [op |-> op, t |-> t, args |-> args, err |-> ArtifactArgs]
            /\ runs' = runs + 1
            /\ UNCHANGED <<now, mtime, sentinel, pid, stack, cleanups, pushed,
                           watcher, drain0, ran, edits>>
       ELSE /\ InvokeWith(op, t, args)
            /\ last' = [op |-> op, t |-> t, args |-> args, err |-> << >>]
    /\ UNCHANGED <<pidfile, logfile, procs, own, call, reg, rest>>

NextCli ==
    \/ \E op \in {"run", "build", "start"}, t \in Targets, args \in ArgLists :
          Execute(op, t, args)
    \/ Dispatch
    \/ BuildDecide
    \/ RunExec
    \/ RunContainerPre
    \/ PushCleanup
    \/ ActEnd
    \/ TouchSentinel
    \/ StartSpawn
    \/ Teardown
    \/ Return

SpecCli == Init /\ [][NextCli]_allvars

(***************************************************************************)
(* The name registry (src/src/context.rs, src/src/name.rs).  A string is   *)
(* the sequence of its segments between dots: "command.exec.a" is          *)
(* <<"command", "exec", "a">>.                                             *)
(***************************************************************************)
\* the type tags of the four kinds of target
Tags == {<<"command", "exec">>, <<"command", "container">>,
         <<"artifact", "container_image">>, <<"artifact", "exec">>}

\* the names a configuration may declare (a quoted key may hold a dot)
Names == {<<"a">>, <<"b">>, <<"a", "b">>}

FullyQualifiedName(tag, name) == [tag |-> tag, name |-> name]

AllNames == {FullyQualifiedName(tag, name) : tag \in Tags, name \in Names}

\* Display for FullyQualifiedName: "{}.{}"
to_string(q) == q.tag \o q.name

\* FullyQualifiedName::from_string: the last segment is the name, the rest
\* the tag
from_string(input) ==
    [tag |-> SubSeq(input, 1, Len(input) - 1), name |-> <<input[Len(input)]>>]

\* str::contains('.')
contains_dot(str) == Len(str) > 1

\* str::split_once('.'): the cut is at the first dot
split_once(str) == <<<<str[1]>>, Tail(str)>>

\* the byte order of the segments
Rank(seg) ==
    CASE seg = "a" -> 1
      [] seg = "artifact" -> 2
      [] seg = "b" -> 3
      [] seg = "c" -> 4
      [] seg = "command" -> 5
      [] seg = "container" -> 6
      [] seg = "container_image" -> 7
      [] seg = "exec" -> 8

\* Ord for String, on dotted strings: a dot is less than every byte of a
\* segment
RECURSIVE StrLess(_, _)
StrLess(x, y) ==
    IF y = << >> THEN FALSE
    ELSE IF x = << >> THEN TRUE
    ELSE IF x[1] # y[1] THEN Rank(x[1]) < Rank(y[1])
    ELSE StrLess(Tail(x), Tail(y))

RECURSIVE Insert(_, _)
Insert(x, v) ==
    IF v = << >> THEN <<x>>
    ELSE IF StrLess(v[1], x) THEN <<v[1]>> \o Insert(x, Tail(v))
    ELSE <<x>> \o v

\* Vec<String>::sort
RECURSIVE sort(_)
sort(v) == IF v = << >> THEN << >> ELSE Insert(v[1], sort(Tail(v)))

\* the orders in which a HashMap may iterate over its keys
Orders(keys) ==
    {o \in [1..Cardinality(keys) -> keys] :
        \A i, j \in 1..Cardinality(keys) : i # j => o[i] # o[j]}

\* CommandLookupResult
Found(target) == [r |-> "Found", t |-> target]
NotFound == [r |-> "NotFound"]
Duplicates(d) == [r |-> "Duplicates", d |-> d]

\* (mutant) of several targets of the name the first one is found
get_target_first(keys, name) ==
    IF contains_dot(name)
    THEN LET fully_qualified_name ==
                 FullyQualifiedName(split_once(name)[1], split_once(name)[2])
         IN  IF fully_qualified_name \in Range(keys)
             THEN Found(fully_qualified_name) ELSE NotFound
    ELSE LET duplicates == SelectSeq(keys, LAMBDA key : key.name = name)
         IN  IF duplicates # << >> THEN Found(duplicates[1]) ELSE NotFound

\* Context::get_target; keys is self.targets.keys() in iteration order, and
\* a target is identified with its key
get_target(keys, name) ==
    IF contains_dot(name)
    THEN LET fully_qualified_name ==
                 FullyQualifiedName(split_once(name)[1], split_once(name)[2])
         IN  IF fully_qualified_name \in Range(keys)
             THEN Found(fully_qualified_name) ELSE NotFound
    ELSE LET duplicates == SelectSeq(keys, LAMBDA key : key.name = name)
         IN  IF Len(duplicates) > 1
             THEN Duplicates([i \in 1..Len(duplicates) |->
                                 to_string(duplicates[i])])
             ELSE IF duplicates # << >> THEN Found(duplicates[1])
             ELSE NotFound

\* the subcommands that look a target up by name
Subcommands == {"run", "start", "stop", "status", "build", "watch"}

\* the subcommands whose Duplicates arm calls duplicates.sort()
Sorting == {"run", "build", "watch"}

\* the error of a subcommand whose lookup did not find one target
LookupError(cmd, name, res) ==
    IF res.r = "NotFound"
    THEN [msg |-> "not found in config file", name |-> name]
    ELSE IF res.r = "Duplicates"
    THEN [msg |-> "is ambiguous, possible values are", name |-> name,
          values |-> IF cmd \in Sorting THEN sort(res.d) ELSE res.d]
    ELSE [msg |-> "none"]

\* the references tried on the command line
LookupRefs ==
    Names \cup {<<"c">>} \cup {to_string(q) : q \in AllNames}
          \cup {<<"command", "a">>}

\* a configuration entry: its requires list, and its extends ("" = None)
NoRefs == [requires |-> << >>, extends |-> << >>]

\* name_map.get(r): the targets registered under r, by short name and by
\* fully-qualified string
ByName(config, r) == {q \in DOMAIN config : q.name = r}
ByString(config, r) == {q \in DOMAIN config : to_string(q) = r}
Candidates(config, r) ==
    Cardinality(ByName(config, r)) + Cardinality(ByString(config, r))

Ok(v) == [ok |-> TRUE, v |-> v]
Err(e) == [ok |-> FALSE, err |-> e]

\* (mutant) of several candidates the first is taken
resolve_requires_first(reqs, config) ==
    LET bad == {i \in 1..Len(reqs) : Candidates(config, reqs[i]) = 0}
    IN  IF bad = {}
        THEN Ok([i \in 1..Len(reqs) |->
                    CHOOSE q \in ByName(config, reqs[i])
                                 \cup ByString(config, reqs[i]) : TRUE])
        ELSE Err(<<"Non-existent reference", reqs[CHOOSE i \in bad :
                                    \A j \in bad : i <= j]>>)

\* resolve_requires: each entry must have exactly one candidate; collect()
\* stops at the first error
resolve_requires(reqs, config) ==
    LET bad == {i \in 1..Len(reqs) : Candidates(config, reqs[i]) # 1}
    IN  IF bad = {}
        THEN Ok([i \in 1..Len(reqs) |->
                    CHOOSE q \in ByName(config, reqs[i])
                                 \cup ByString(config, reqs[i]) : TRUE])
        ELSE LET r == reqs[CHOOSE i \in bad : \A j \in bad : i <= j]
             IN  IF Candidates(config, r) > 1
                 THEN Err(<<"Ambiguous reference", r>>)
                 ELSE Err(<<"Non-existent reference", r>>)

get_lookup_name(name, default_tag) ==
    IF contains_dot(name)
    THEN FullyQualifiedName(split_once(name)[1], split_once(name)[2])
    ELSE FullyQualifiedName(default_tag, name)

\* resolve_extends and target_info_from_config: the requires of the base,
\* then the target's own.  The recursion has no cycle check: depth counts
\* the calls left before a cycle of extends has exhausted the stack.
RECURSIVE resolve_extends(_, _, _)
resolve_extends(name, config, depth) ==
    LET command == config[name]
        extends_fully_qualified == get_lookup_name(command.extends, name.tag)
        base == IF command.extends = << >> THEN Ok(<< >>)
                ELSE IF extends_fully_qualified \notin DOMAIN config
                THEN Err(<<"extends non-existent", extends_fully_qualified>>)
                ELSE IF depth = 0 THEN Err(<<"stack overflow">>)
                ELSE resolve_extends(extends_fully_qualified, config, depth - 1)
        others_ == resolve_requires(command.requires, config)
    IN  IF ~base.ok THEN base
        ELSE IF ~others_.ok THEN Err(<<"Invalid reference from", name, others_.err>>)
        ELSE Ok(base.v \o others_.v)

\* Context::from_config: the outcomes of loading.  Every declared target
\* is resolved, in the iteration order of a HashMap; the first failure ends
\* the load.
from_config(config) ==
    LET res == [q \in DOMAIN config |->
                   resolve_extends(q, config, Cardinality(DOMAIN config))]
    IN  IF \A q \in DOMAIN config : res[q].ok
        THEN {[st |-> "ok",
               targets |-> [q \in DOMAIN config |-> [requires |-> res[q].v]]]}
        ELSE {[st |-> "error", err |-> res[q].err] :
                 q \in {x \in DOMAIN config : ~res[x].ok}}

\* the subcommand of this process looks its target up in the loaded context
Lookup(cmd, name) ==
    /\ reg.ctx.st = "ok"
    /\ reg.look.cmd = "none"
    /\ \E keys \in Orders(DOMAIN reg.ctx.targets) :
          LET res == get_target(keys, name)
          IN  reg' = [reg EXCEPT !.look =
                         [cmd |-> cmd, name |-> name, res |-> res,
                          err |-> LookupError(cmd, name, res)]]
    /\ UNCHANGED <<vars, pidfile, logfile, procs, own, call, last, rest>>

\* the configurations of at most MaxTargets targets without references,
\* loaded
InitNames ==
    /\ VarsInit
    /\ SupInit
    /\ RestInit
    /\ \E D \in SUBSET AllNames :
          /\ Cardinality(D) <= MaxTargets
          /\ \E ctx \in from_config([q \in D |-> NoRefs]) :
                reg = [config |-> [q \in D |-> NoRefs], ctx |-> ctx,
                       look |-> [cmd |-> "none"]]

NextNames == \E cmd \in Subcommands, name \in LookupRefs : Lookup(cmd, name)

SpecNames == InitNames /\ [][NextNames]_allvars

\* the references a requires list may hold: short names (c is declared by
\* nobody) and a fully-qualified string
RequireRefs == {<<"a">>, <<"b">>, <<"c">>, <<"command", "exec", "a">>}

\* the references an extends may hold
ExtendRefs == {<<"a">>, <<"b">>}

\* the requires entries and extends of a configuration
RECURSIVE RefCount(_, _)
RefCount(config, D) ==
    IF D = {} THEN 0
    ELSE LET q == CHOOSE x \in D : TRUE
         IN  Len(config[q].requires)
                 + (IF config[q].extends = << >> THEN 0 ELSE 1)
                 + RefCount(config, D \ {q})

\* the configuration file gets a table [tag.name]
DeclareTarget(q) ==
    /\ reg.ctx.st = "unloaded"
    /\ q \notin DOMAIN reg.config
    /\ Cardinality(DOMAIN reg.config) < MaxDeclared
    /\ reg' = [reg EXCEPT !.config =
                  [x \in DOMAIN reg.config \cup {q} |->
                      IF x = q THEN NoRefs ELSE reg.config[x]]]
    /\ UNCHANGED <<vars, pidfile, logfile, procs, own, call, last, rest>>

\* the table of q gets one more entry in requires
Require(q, r) ==
    /\ reg.ctx.st = "unloaded"
    /\ q \in DOMAIN reg.config
    /\ RefCount(reg.config, DOMAIN reg.config) < MaxRefs
    /\ reg' = [reg EXCEPT !.config[q].requires = Append(@, r)]
    /\ UNCHANGED <<vars, pidfile, logfile, procs, own, call, last, rest>>

\* the table of q gets extends = r
Extend(q, r) ==
    /\ reg.ctx.st = "unloaded"
    /\ q \in DOMAIN reg.config
    /\ reg.config[q].extends = << >>
    /\ RefCount(reg.config, DOMAIN reg.config) < MaxRefs
    /\ reg' = [reg EXCEPT !.config[q].extends = r]
    /\ UNCHANGED <<vars, pidfile, logfile, procs, own, call, last, rest>>

\* the process loads the configuration
Load ==
    /\ reg.ctx.st = "unloaded"
    /\ \E ctx \in from_config(reg.config) : reg' = [reg EXCEPT !.ctx = ctx]
    /\ UNCHANGED <<vars, pidfile, logfile, procs, own, call, last, rest>>

NextLoad ==
    \/ \E q \in AllNames : DeclareTarget(q)
    \/ \E q \in AllNames, r \in RequireRefs : Require(q, r)
    \/ \E q \in AllNames, r \in ExtendRefs : Extend(q, r)
    \/ Load

SpecLoad == Init /\ [][NextLoad]_allvars

(***************************************************************************)
(* Inheritance: the records that from_config makes of a configuration      *)
(* whose targets extend one another (src/src/context.rs,                   *)
(* src/src/default.rs, from_config of src/src/targets).  One kind of       *)
(* target at a time: a container command or an exec artifact.              *)
(***************************************************************************)
\* Option<T>
None == [some |-> FALSE]
Some(v) == [some |-> TRUE, v |-> v]

\* the names of the targets, in the order in which they are declared
ChainNames == <<"t1", "t2", "t3", "t4">>

Kinds == {"container", "artifact"}

\* the fields of a table of the configuration, by kind; the scalar that
\* validation requires is image for a container and command for an artifact
Fields(k) ==
    IF k = "container"
    THEN {"image", "workdir", "daemon", "env", "mount", "variables"}
    ELSE {"command", "env", "variables", "updates_paths"}

FieldValues(f) ==
    CASE f \in {"image", "command"} -> {"s1", "s2"}
      [] f = "workdir" -> {"w1", "w2"}
      [] f = "daemon" -> BOOLEAN
      [] f = "env" -> {<<"E1">>, <<"E2">>}
      [] f \in {"mount", "variables"} ->
             {"k1" :> "v1", "k1" :> "v2", "k2" :> "v1"}
      [] f = "updates_paths" -> {<< >>, <<"p1">>, <<"p2">>}

\* a table without any key
NoEntry ==
    [extends |-> None, image |-> None, command |-> None, workdir |-> None,
     daemon |-> None, env |-> None, mount |-> None, variables |-> None,
     updates_paths |-> None]

\* _default_to: prefer, else the base's, else T::default()
default_to(prefer, base, f, zero) ==
    IF prefer.some THEN prefer.v ELSE IF base.some THEN base.v[f] ELSE zero

\* _default_to_with_default
default_to_with_default(prefer, base, f, default) ==
    IF prefer.some THEN prefer.v ELSE IF base.some THEN base.v[f] ELSE default

\* _default_optional
default_optional(prefer, base, f) ==
    IF prefer.some THEN prefer ELSE IF base.some THEN base.v[f] ELSE None

\* HashMap::extend: the entries of b are inserted over those of a
Extended(a, b) ==
    [k \in DOMAIN a \cup DOMAIN b |-> IF k \in DOMAIN b THEN b[k] ELSE a[k]]

\* the match of artifact_info_from_config on (base, config)
MergePaths(a, b) ==
    IF a.some /\ ~b.some THEN a
    ELSE IF ~a.some /\ b.some THEN b
    ELSE IF a.some /\ b.some THEN Some(a.v \o b.v)
    ELSE None

\* target_info_from_config: the variables of the base, extended by the
\* target's own
target_info_from_config(defn, base) ==
    [variables |-> Extended(IF base.some THEN base.v.variables ELSE << >>,
                            IF defn.variables.some THEN defn.variables.v
                            ELSE << >>)]

\* ContainerCommand::from_config with command_info_from_config
ContainerCommand_from_config(defn, base) ==
    [image |-> default_to(defn.image, base, "image", ""),
     env |-> (IF base.some THEN base.v.env ELSE << >>)
                \o (IF defn.env.some THEN defn.env.v ELSE << >>),
     mount |-> default_to(defn.mount, base, "mount", << >>),
     workdir |-> default_optional(defn.workdir, base, "workdir"),
     daemon |-> default_to_with_default(defn.daemon, base, "daemon", FALSE),
     variables |-> target_info_from_config(defn, base).variables]

\* ExecArtifact::from_config with artifact_info_from_config
ExecArtifact_from_config(defn, base) ==
    [command |-> default_to(defn.command, base, "command", ""),
     env |-> (IF base.some THEN base.v.env ELSE << >>)
                \o (IF defn.env.some THEN defn.env.v ELSE << >>),
     updates_paths |-> MergePaths(IF base.some THEN base.v.updates_paths
                                  ELSE None, defn.updates_paths),
     variables |-> target_info_from_config(defn, base).variables]

\* Validate: the required scalar of the record made must not be empty
validate(k, rec) ==
    IF k = "container" THEN rec.image # "" ELSE rec.command # ""

\* resolve_extends for one kind: the base first, then the record of the
\* target, then its validation
RECURSIVE resolve_record(_, _, _, _)
resolve_record(k, config, name, depth) ==
    LET defn == config[name]
        base == IF ~defn.extends.some THEN Ok(None)
                ELSE IF defn.extends.v \notin DOMAIN config
                THEN Err(<<"extends non-existent", defn.extends.v>>)
                ELSE IF depth = 0 THEN Err(<<"stack overflow">>)
                ELSE LET b == resolve_record(k, config, defn.extends.v,
                                             depth - 1)
                     IN  IF b.ok THEN Ok(Some(b.v)) ELSE b
    IN  IF ~base.ok THEN base
        ELSE LET rec == IF k = "container"
                        THEN ContainerCommand_from_config(defn, base.v)
                        ELSE ExecArtifact_from_config(defn, base.v)
             IN  IF validate(k, rec) THEN Ok(rec)
                 ELSE Err(<<"Error validating", name>>)

\* Context::from_config: the records of the targets, and context.variables,
\* which holds for each target the variables of its own table when it has
\* any
records_from_config(k, config) ==
    LET res == [n \in DOMAIN config |->
                   resolve_record(k, config, n, Cardinality(DOMAIN config))]
    IN  IF \A n \in DOMAIN config : res[n].ok
        THEN {[st |-> "ok",
               targets |-> [n \in DOMAIN config |-> res[n].v],
               variables |-> [n \in {x \in DOMAIN config :
                                        config[x].variables.some} |->
                                 config[n].variables.v]]}
        ELSE {[st |-> "error", err |-> res[n].err] :
                 n \in {x \in DOMAIN config : ~res[x].ok}}

\* the fields set in the tables of a configuration
RECURSIVE FieldCount(_, _, _)
FieldCount(k, config, D) ==
    IF D = {} THEN 0
    ELSE LET n == CHOOSE x \in D : TRUE
         IN  Cardinality({f \in Fields(k) : config[n][f].some})
                 + FieldCount(k, config, D \ {n})

\* the configuration gets the table of the next target, which may extend
\* a target declared before it
DeclareEntry(base) ==
    /\ ext.ctx.st = "unloaded"
    /\ Cardinality(DOMAIN ext.config) < MaxChain
    /\ base.some => base.v \in DOMAIN ext.config
    /\ LET n == ChainNames[Cardinality(DOMAIN ext.config) + 1]
       IN  ext' = [ext EXCEPT !.config =
                      [x \in DOMAIN ext.config \cup {n} |->
                          IF x = n THEN [NoEntry EXCEPT !.extends = base]
                          ELSE ext.config[x]]]
    /\ UNCHANGED <<vars, pidfile, logfile, procs, own, call, last, reg,
                   subst, td, roots, cyc, more>>

\* the table of n gets the key f
SetField(n, f, v) ==
    /\ ext.ctx.st = "unloaded"
    /\ n \in DOMAIN ext.config
    /\ f \in Fields(ext.kind)
    /\ ~ext.config[n][f].some
    /\ FieldCount(ext.kind, ext.config, DOMAIN ext.config) < MaxFields + 1
    /\ ext' = [ext EXCEPT !.config[n][f] = Some(v)]
    /\ UNCHANGED <<vars, pidfile, logfile, procs, own, call, last, reg,
                   subst, td, roots, cyc, more>>

\* the process loads the configuration
LoadRecords ==
    /\ ext.ctx.st = "unloaded"
    /\ \E ctx \in records_from_config(ext.kind, ext.config) :
          ext' = [ext EXCEPT !.ctx = ctx]
    /\ UNCHANGED <<vars, pidfile, logfile, procs, own, call, last, reg,
                   subst, td, roots, cyc, more>>

\* resolve_substitutions_inner on a placeholder {key} of target n, arm
\* Variable::Simple: self.variables.get(this_target_name), then get(key)
ExpandKey(n, key) ==
    /\ ext.ctx.st = "ok"
    /\ ext.look.key = "none"
    /\ n \in DOMAIN ext.ctx.targets
    /\ LET found == n \in DOMAIN ext.ctx.variables
                       /\ key \in DOMAIN ext.ctx.variables[n]
       IN  ext' = [ext EXCEPT !.look =
                      [n |-> n, key |-> key,
                       res |-> IF found THEN Ok(ext.ctx.variables[n][key])
                               ELSE Err(<<"Variable <", key, "> not found">>)]]
    /\ UNCHANGED <<vars, pidfile, logfile, procs, own, call, last, reg,
                   subst, td, roots, cyc, more>>

\* a configuration of one target of either kind, with its required scalar
InitExtends ==
    /\ VarsInit
    /\ SupInit
    /\ reg = NoReg
    /\ subst = Nothing /\ td = Nothing /\ roots = Nothing /\ cyc = Nothing
    /\ MoreInit
    /\ \E k \in Kinds :
          ext = [kind |-> k,
                 config |-> [n \in {"t1"} |->
                               IF k = "container"
                               THEN [NoEntry EXCEPT !.image = Some("s1")]
                               ELSE [NoEntry EXCEPT !.command = Some("s1")]],
                 ctx |-> [st |-> "unloaded"],
                 look |-> [key |-> "none"]]

NextExtends ==
    \/ \E base \in {None} \cup {Some(ChainNames[i]) : i \in 1..MaxChain} :
          DeclareEntry(base)
    \/ \E i \in 1..MaxChain, f \in Fields("container") \cup Fields("artifact") :
          \E v \in FieldValues(f) : SetField(ChainNames[i], f, v)
    \/ LoadRecords
    \/ \E i \in 1..MaxChain, key \in {"k1", "k2"} : ExpandKey(ChainNames[i], key)

SpecExtends == InitExtends /\ [][NextExtends]_allvars

(***************************************************************************)
(* The dependency walk over any requires graph, with cycles and            *)
(* self-references (find_required and run_required of src/src/target.rs).  *)
(* The files are left out: a terminal action is counted, not carried out.  *)
(***************************************************************************)
\* three targets: an exec command, an exec artifact, a daemon
GraphTargets == {"A", "B", "D"}

GraphKind(t) == IF t = "B" THEN "artifact" ELSE "exec"
GraphDaemon(t) == t = "D"

\* the requires lists a target may have
RequiresLists ==
    {<< >>} \cup {<<x>> : x \in GraphTargets}
            \cup {<<p[1], p[2]>> : p \in {q \in GraphTargets \X GraphTargets : q[1] # q[2]}}

\* the arm of the match in run_required
GraphOp(r) ==
    IF GraphKind(r) = "artifact" THEN "build"
    ELSE IF GraphDaemon(r) THEN "start"
    ELSE "run"

\* a call of run / build / start; a0 is the number of terminal actions
\* carried out before it, disp the calls it has made (history)
GraphFrame(t, op) ==
    [t |-> t, op |-> op, i |-> 1, ph |-> "find", res |-> <<"none">>,
     a0 |-> cyc.acts, disp |-> 0]

GraphTop == cyc.stack[Len(cyc.stack)]

\* the subcommand calls run / build / start of the target
InvokeOn(op, t) ==
    /\ cyc.stack = << >>
    /\ cyc.res = <<"none">>
    /\ op = "build" => GraphKind(t) = "artifact"
    /\ op = "start" => GraphKind(t) # "artifact"
    /\ cyc' = [cyc EXCEPT !.stack = <<GraphFrame(t, op)>>, !.root = t]
    /\ UNCHANGED <<vars, pidfile, logfile, procs, own, call, last, reg, ext,
                   subst, td, roots, more>>

\* (mutant) only the first entry of the list is compared with the name
FindRequiredFirst ==
    /\ cyc.stack # << >>
    /\ GraphTop.ph = "find"
    /\ IF /\ cyc.graph[GraphTop.t] # << >>
          /\ GraphTop.t = Head(cyc.graph[GraphTop.t])
       THEN cyc' = [cyc EXCEPT
                       !.stack[Len(cyc.stack)].ph = "ret",
                       !.stack[Len(cyc.stack)].res =
                           <<"Target <", GraphTop.t, "> requires itself">>]
       ELSE cyc' = [cyc EXCEPT !.stack[Len(cyc.stack)].ph = "req"]
    /\ UNCHANGED <<vars, pidfile, logfile, procs, own, call, last, reg, ext,
                   subst, td, roots, more>>

\* find_required: the whole list is looked through before anything is
\* called; an entry equal to the target's own name is an error
FindRequired ==
    /\ cyc.stack # << >>
    /\ GraphTop.ph = "find"
    /\ IF GraphTop.t \in Range(cyc.graph[GraphTop.t])
       THEN cyc' = [cyc EXCEPT
                       !.stack[Len(cyc.stack)].ph = "ret",
                       !.stack[Len(cyc.stack)].res =
                           <<"Target <", GraphTop.t, "> requires itself">>]
       ELSE cyc' = [cyc EXCEPT !.stack[Len(cyc.stack)].ph = "req"]
    /\ UNCHANGED <<vars, pidfile, logfile, procs, own, call, last, reg, ext,
                   subst, td, roots, more>>

\* one iteration of the loop of run_required: the call of build, start or
\* run of the next required target.  The stack of the process holds
\* MaxDepth calls; one more ends the process.
RunRequired ==
    /\ cyc.stack # << >>
    /\ GraphTop.ph = "req"
    /\ GraphTop.i <= Len(cyc.graph[GraphTop.t])
    /\ LET r == cyc.graph[GraphTop.t][GraphTop.i]
       IN  IF Len(cyc.stack) = MaxDepth
           THEN cyc' = [cyc EXCEPT !.stack = << >>, !.res = <<"stack overflow">>]
           ELSE cyc' = [cyc EXCEPT
                           !.stack = Append([cyc.stack EXCEPT
                                                ![Len(cyc.stack)].disp = @ + 1],
                                            GraphFrame(r, GraphOp(r)))]
    /\ UNCHANGED <<vars, pidfile, logfile, procs, own, call, last, reg, ext,
                   subst, td, roots, more>>

\* after the loop: the command of the target is executed (or, for a build,
\* found up to date) and succeeds or fails
TerminalAction ==
    /\ cyc.stack # << >>
    /\ GraphTop.ph = "req"
    /\ GraphTop.i > Len(cyc.graph[GraphTop.t])
    /\ \/ \E res \in {<<"ok">>, <<"failed">>} :
             cyc' = [cyc EXCEPT !.stack[Len(cyc.stack)].ph = "ret",
                                !.stack[Len(cyc.stack)].res = res,
                                !.acts = @ + 1]
       \/ /\ GraphTop.op = "build"
          /\ cyc' = [cyc EXCEPT !.stack[Len(cyc.stack)].ph = "ret",
                                !.stack[Len(cyc.stack)].res = <<"ok">>]
    /\ UNCHANGED <<vars, pidfile, logfile, procs, own, call, last, reg, ext,
                   subst, td, roots, more>>

\* the call returns: Ok lets the loop of the caller go on, Err ends the
\* caller with the same error; the root returns to the subcommand
ReturnTo ==
    /\ cyc.stack # << >>
    /\ GraphTop.ph = "ret"
    /\ IF Len(cyc.stack) = 1
       THEN cyc' = [cyc EXCEPT !.stack = << >>, !.res = GraphTop.res]
       ELSE LET c == GraphTop
                up == SubSeq(cyc.stack, 1, Len(cyc.stack) - 1)
            IN  cyc' = [cyc EXCEPT !.stack =
                           IF c.res = <<"ok">>
                           THEN [up EXCEPT ![Len(up)].i = @ + 1]
                           ELSE [up EXCEPT ![Len(up)].ph = "ret",
                                           ![Len(up)].res = c.res]]
    /\ UNCHANGED <<vars, pidfile, logfile, procs, own, call, last, reg, ext,
                   subst, td, roots, more>>

\* any requires graph over the three targets
InitGraph ==
    /\ VarsInit
    /\ SupInit
    /\ reg = NoReg
    /\ ext = Nothing /\ subst = Nothing /\ td = Nothing /\ roots = Nothing
    /\ MoreInit
    /\ \E g \in [GraphTargets -> RequiresLists] :
          cyc = [graph |-> g, stack |-> << >>, acts |-> 0, res |-> <<"none">>,
                 root |-> "none"]

NextGraph ==
    \/ \E op \in {"run", "build", "start"}, t \in GraphTargets : InvokeOn(op, t)
    \/ FindRequired
    \/ RunRequired
    \/ TerminalAction
    \/ ReturnTo

SpecGraph == InitGraph /\ [][NextGraph]_allvars

(***************************************************************************)
(* Run-time expansion of placeholders (src/src/context.rs).  A text is a   *)
(* sequence of symbols: "{", "}" and "." are the characters of that name,  *)
(* every other symbol is a run of characters without brace or dot.         *)
(***************************************************************************)
\* the texts are made of these pieces
Pieces ==
    {<<"echo">>, <<"{">>, <<"}">>,
     <<"{", "args", "}">>,
     <<"{", "v", "}">>,
     <<"{", "globals", ".", "g", "}">>,
     <<"{", "command", ".", "exec", ".", "t", ".", "k", "}">>,
     <<"{", "command", ".", "exec", ".", "t", ".", "output", ".", "o", "}">>}

RECURSIVE TextsOf(_)
TextsOf(n) ==
    IF n = 0 THEN {<< >>}
    ELSE TextsOf(n - 1) \cup {s \o q : s \in TextsOf(n - 1), q \in Pieces}

\* the argument lists of a call
ArgsOf == {<< >>, <<<<"a">>>>, <<<<"a">>, <<"$b">>>>, <<<<"{", "v", "}">>>>}

\* FullyQualifiedName::from_string on a text: the cut is at the last dot
RECURSIVE rfind(_, _)
rfind(str, ch) ==
    IF str = << >> THEN 0
    ELSE IF str[Len(str)] = ch THEN Len(str)
    ELSE rfind(SubSeq(str, 1, Len(str) - 1), ch)

name_from_string(input) ==
    LET d == rfind(input, ".")
    IN  [tag |-> SubSeq(input, 1, d - 1),
         name |-> SubSeq(input, d + 1, Len(input))]

\* str::find from a position on: the position of the first ch, 0 if none
RECURSIVE find(_, _, _)
find(str, ch, from) ==
    IF from > Len(str) THEN 0
    ELSE IF str[from] = ch THEN from
    ELSE find(str, ch, from + 1)

starts_with(str, pat) ==
    /\ Len(pat) <= Len(str)
    /\ SubSeq(str, 1, Len(pat)) = pat

\* str::replace: every occurrence of pat, from left to right
RECURSIVE replace(_, _, _)
replace(str, pat, to) ==
    IF str = << >> THEN << >>
    ELSE IF starts_with(str, pat)
    THEN to \o replace(SubSeq(str, Len(pat) + 1, Len(str)), pat, to)
    ELSE <<Head(str)>> \o replace(Tail(str), pat, to)

\* Variable::from_string
Variable_from_string(input) ==
    LET d == rfind(input, ".")
        before == SubSeq(input, 1, d - 1)
        key == SubSeq(input, d + 1, Len(input))
        d2 == rfind(before, ".")
    IN  IF d = 0 THEN [is |-> "Simple", key |-> input]
        ELSE IF starts_with(input, <<"globals", ".">>)
        THEN [is |-> "Global", key |-> SubSeq(input, 3, Len(input))]
        ELSE IF d2 > 0 /\ SubSeq(before, d2 + 1, Len(before)) = <<"output">>
        THEN [is |-> "Output", target |-> SubSeq(before, 1, d2 - 1), key |-> key]
        ELSE [is |-> "Ref", target |-> before, key |-> key]

\* HashMap::get
get(map, key) == IF key \in DOMAIN map THEN Some(map[key]) ELSE None

\* get(..).and_then(|m| m.get(key))
get2(maps, name, key) ==
    IF name \in DOMAIN maps THEN get(maps[name], key) ELSE None

\* shlex::try_quote: a word of safe characters stands as it is, any other
\* is put in single quotes
escape_string(arg) ==
    IF \A k \in DOMAIN arg : arg[k] \in {"a", "echo"}
    THEN arg
    ELSE <<"'">> \o arg \o <<"'">>

RECURSIVE join(_, _)
join(strs, sep) ==
    IF strs = << >> THEN << >>
    ELSE IF Len(strs) = 1 THEN strs[1]
    ELSE strs[1] \o sep \o join(Tail(strs), sep)

escaped_args_str(args, default_args) ==
    IF args.some
    THEN IF args.v = << >>
         THEN IF default_args.some THEN default_args.v ELSE << >>
         ELSE join([k \in DOMAIN args.v |-> escape_string(args.v[k])], <<" ">>)
    ELSE << >>

\* the match on Variable::from_string(variable)
replacement(c, variable, args_str) ==
    LET var == Variable_from_string(variable)
    IN  CASE var.is = "Simple" ->
                IF var.key = <<"args">> THEN Some(args_str)
                ELSE get2(c.variables, c.this, var.key)
          [] var.is = "Global" -> get(c.globals, var.key)
          [] var.is = "Output" ->
                get2(c.outputs, name_from_string(var.target), var.key)
          [] var.is = "Ref" ->
                get2(c.variables, name_from_string(var.target), var.key)

\* the while loop: index is the position from which the command is
\* scanned, resolved the text so far
RECURSIVE scan(_, _, _, _, _, _)
scan(c, command, args_str, resolved, index, replaced_args) ==
    LET found == find(command, "{", index)
        end == IF found = 0 THEN 0 ELSE find(command, "}", found)
        variable == SubSeq(command, found + 1, end - 1)
        rep == replacement(c, variable, args_str)
    IN  IF index > Len(command) \/ found = 0 \/ end = 0
        THEN Ok([resolved |-> resolved, replaced_args |-> replaced_args])
        ELSE IF rep.some
        THEN scan(c, command, args_str,
                  replace(resolved, <<"{">> \o variable \o <<"}">>, rep.v),
                  end + 1,
                  replaced_args \/ variable = <<"args">>)
        ELSE Err(<<"Variable <">> \o variable \o <<"> not found">>)

\* (mutant) a text with a placeholder that has no binding is returned as
\* it was given
resolve_substitutions_lenient(c, command, args, default_args) ==
    LET args_str == escaped_args_str(args, default_args)
        r == scan(c, command, args_str, command, 1, FALSE)
    IN  IF ~r.ok THEN Ok(command)
        ELSE IF ~r.v.replaced_args /\ args.some
        THEN Ok(r.v.resolved \o <<" ">> \o args_str)
        ELSE Ok(r.v.resolved)

\* Context::resolve_substitutions_inner
resolve_substitutions_inner(c, command, args, default_args) ==
    LET args_str == escaped_args_str(args, default_args)
        r == scan(c, command, args_str, command, 1, FALSE)
    IN  IF ~r.ok THEN r
        ELSE IF ~r.v.replaced_args /\ args.some
        THEN Ok(r.v.resolved \o <<" ">> \o args_str)
        ELSE Ok(r.v.resolved)

\* the names of the target whose text is expanded and of another target
ThisName == name_from_string(<<"command", ".", "exec", ".", "self">>)
ThatName == name_from_string(<<"command", ".", "exec", ".", "t">>)

\* the context in which the bindings of the set bound exist
ContextOf(bound) ==
    [this |-> ThisName,
     variables |->
        (IF "v" \in bound THEN ThisName :> (<<"v">> :> <<"1">>) ELSE << >>)
        @@ (IF "k" \in bound THEN ThatName :> (<<"k">> :> <<"3">>) ELSE << >>),
     globals |-> IF "g" \in bound THEN <<"g">> :> <<"2">> ELSE << >>,
     outputs |->
        IF "o" \in bound THEN ThatName :> (<<"o">> :> <<"4">>) ELSE << >>]

\* the sets of bindings tried: all four, none, and all but one
Bindings ==
    {{"v", "g", "k", "o"}, {}}
    \cup {{"v", "g", "k", "o"} \ {x} : x \in {"v", "g", "k", "o"}}

\* Context::resolve_substitutions
ResolveSubstitutions ==
    /\ subst.call = "none"
    /\ subst' = [subst EXCEPT
                    !.call = "resolve_substitutions",
                    !.args = None,
                    !.default_args = None,
                    !.res = resolve_substitutions_inner(subst.c, subst.command,
                                                        None, None)]
    /\ UNCHANGED <<vars, pidfile, logfile, procs, own, call, last, reg, ext,
                   td, roots, cyc, more>>

\* Context::resolve_substitutions_with_args
ResolveSubstitutionsWithArgs(args, default_args) ==
    /\ subst.call = "none"
    /\ subst' = [subst EXCEPT
                    !.call = "resolve_substitutions_with_args",
                    !.args = Some(args),
                    !.default_args = default_args,
                    !.res = resolve_substitutions_inner(subst.c, subst.command,
                                                        Some(args), default_args)]
    /\ UNCHANGED <<vars, pidfile, logfile, procs, own, call, last, reg, ext,
                   td, roots, cyc, more>>

\* any text of at most MaxPieces pieces, in any context
InitSubst ==
    /\ VarsInit
    /\ SupInit
    /\ reg = NoReg
    /\ ext = Nothing /\ td = Nothing /\ roots = Nothing /\ cyc = Nothing
    /\ MoreInit
    /\ \E text \in TextsOf(MaxPieces), bound \in Bindings :
          subst = [command |-> text, c |-> ContextOf(bound), call |-> "none",
                   args |-> None, default_args |-> None, res |-> Nothing]

NextSubst ==
    \/ ResolveSubstitutions
    \/ \E args \in ArgsOf, default_args \in {None, Some(<<"d">>)} :
          ResolveSubstitutionsWithArgs(args, default_args)

SpecSubst == InitSubst /\ [][NextSubst]_allvars

(***************************************************************************)
(* The end of a scope: run_target of src/src/runner.rs and Command::run of *)
(* src/src/target.rs.  The required targets are started or run, the        *)
(* target is run, and the daemons of to_stop are stopped; a start, a run   *)
(* and a stop each succeed or fail.                                        *)
(***************************************************************************)
\* the required targets: two daemons and a target that is run
ScopeTargets == {"d1", "d2", "x"}
ScopeDaemon(t) == t \in {"d1", "d2"}

RECURSIVE RequiredOf(_)
RequiredOf(n) ==
    IF n = 0 THEN {<< >>}
    ELSE RequiredOf(n - 1)
         \cup {Append(s, t) : s \in RequiredOf(n - 1), t \in ScopeTargets}

\* run_target_inner, the loop: the next required target is started or run.
\* In runner.rs a started daemon is pushed to to_stop; in target.rs the
\* inner function leaves to_stop as it is.
StartRequired ==
    /\ td.ph = "required"
    /\ td.i <= Len(td.required)
    /\ LET r == td.required[td.i]
       IN  \/ td' = [td EXCEPT
                        !.i = @ + 1,
                        !.to_stop = IF ScopeDaemon(r) /\ td.file = "runner.rs"
                                    THEN Append(@, r) ELSE @]
           \/ td' = [td EXCEPT !.result = Err(<<"required", r>>),
                               !.ph = "reverse"]
    /\ UNCHANGED <<vars, pidfile, logfile, procs, own, call, last, reg, ext,
                   subst, roots, cyc, more>>

\* run_target_inner, after the loop: the target itself is run
RunTerminal ==
    /\ td.ph = "required"
    /\ td.i > Len(td.required)
    /\ \E result \in {Ok(<<>>), Err(<<"terminal">>)} :
          td' = [td EXCEPT !.result = result, !.ph = "reverse"]
    /\ UNCHANGED <<vars, pidfile, logfile, procs, own, call, last, reg, ext,
                   subst, roots, cyc, more>>

\* to_stop.reverse()
ReverseToStop ==
    /\ td.ph = "reverse"
    /\ td' = [td EXCEPT !.to_stop = Reverse(@), !.ph = "stop", !.k = 1]
    /\ UNCHANGED <<vars, pidfile, logfile, procs, own, call, last, reg, ext,
                   subst, roots, cyc, more>>

\* (mutant) the error of a stop is returned at once
StopTargetOrReturn ==
    /\ td.ph = "stop"
    /\ td.k <= Len(td.to_stop)
    /\ \/ td' = [td EXCEPT !.k = @ + 1,
                           !.stops = Append(@, [t |-> td.to_stop[td.k],
                                                ok |-> TRUE])]
       \/ td' = [td EXCEPT !.stops = Append(@, [t |-> td.to_stop[td.k],
                                                ok |-> FALSE]),
                           !.ph = "returned",
                           !.returned = Err(<<"stop", td.to_stop[td.k]>>)]
    /\ UNCHANGED <<vars, pidfile, logfile, procs, own, call, last, reg, ext,
                   subst, roots, cyc, more>>

\* one iteration of the loop over to_stop: the stop succeeds, or fails and
\* a warning is logged
StopTarget ==
    /\ td.ph = "stop"
    /\ td.k <= Len(td.to_stop)
    /\ \/ td' = [td EXCEPT !.k = @ + 1,
                           !.stops = Append(@, [t |-> td.to_stop[td.k],
                                                ok |-> TRUE])]
       \/ td' = [td EXCEPT !.k = @ + 1,
                           !.stops = Append(@, [t |-> td.to_stop[td.k],
                                                ok |-> FALSE]),
                           !.warned = Append(@, td.to_stop[td.k])]
    /\ UNCHANGED <<vars, pidfile, logfile, procs, own, call, last, reg, ext,
                   subst, roots, cyc, more>>

\* the last line: result
ReturnResult ==
    /\ td.ph = "stop"
    /\ td.k > Len(td.to_stop)
    /\ td' = [td EXCEPT !.ph = "returned", !.returned = td.result]
    /\ UNCHANGED <<vars, pidfile, logfile, procs, own, call, last, reg, ext,
                   subst, roots, cyc, more>>

\* a call of run on a target with any list of at most MaxRequired required
\* targets, in either file
InitScope ==
    /\ VarsInit
    /\ SupInit
    /\ reg = NoReg
    /\ ext = Nothing /\ subst = Nothing /\ roots = Nothing /\ cyc = Nothing
    /\ MoreInit
    /\ \E required \in RequiredOf(MaxRequired), file \in {"runner.rs", "target.rs"} :
          td = [file |-> file, required |-> required, i |-> 1, ph |-> "required",
                to_stop |-> << >>, k |-> 1, stops |-> << >>, warned |-> << >>,
                result |-> Nothing, returned |-> Nothing]

NextScope ==
    \/ StartRequired
    \/ RunTerminal
    \/ ReverseToStop
    \/ StopTarget
    \/ ReturnResult

SpecScope == InitScope /\ [][NextScope]_allvars

(***************************************************************************)
(* The watch roots (find_matching_paths of src/src/watch.rs).  A path is   *)
(* the sequence of its components; a root ends with a slash.               *)
(***************************************************************************)
\* the patterns of the triggers
WatchPatterns ==
    {<<"*.rs">>,
     <<"src", "*.rs">>,
     <<"src", "lib", "*">>,
     <<"src", "**", "*.rs">>,
     <<"src", "*", "lib", "*.rs">>,
     <<"*", "lib", "*">>,
     <<"lib", "?.rs">>,
     <<"lib", "[ab]", "*">>}

RECURSIVE PatternLists(_)
PatternLists(n) ==
    IF n = 0 THEN {<< >>}
    ELSE PatternLists(n - 1)
         \cup {Append(s, q) : s \in PatternLists(n - 1), q \in WatchPatterns}

\* last.contains('*') || last.contains('?') || last.contains('[')
has_glob(component) == component \in {"*", "**", "*.rs", "?.rs", "[ab]"}

\* the while loop: components are popped from the end up to the first
\* one without a glob character
RECURSIVE pop_globs(_)
pop_globs(components) ==
    IF components = << >> THEN << >>
    ELSE IF ~has_glob(components[Len(components)]) THEN components
    ELSE pop_globs(SubSeq(components, 1, Len(components) - 1))

\* components.join("/") + "/", or "./"
parent_dir(pattern) ==
    LET components == pop_globs(pattern)
    IN  IF components # << >> THEN components ELSE <<".">>

\* str::starts_with of two roots
dir_starts_with(dir, prefix) ==
    /\ Len(prefix) <= Len(dir)
    /\ SubSeq(dir, 1, Len(prefix)) = prefix

\* the body of the for loop after parent_dir
add_root(result, dir) ==
    IF \E existing \in result : dir_starts_with(dir, existing)
    THEN result
    ELSE {existing \in result : ~dir_starts_with(existing, dir)} \cup {dir}

RECURSIVE find_matching_paths(_)
find_matching_paths(patterns) ==
    IF patterns = << >> THEN {}
    ELSE add_root(find_matching_paths(SubSeq(patterns, 1, Len(patterns) - 1)),
                  parent_dir(patterns[Len(patterns)]))

\* WatchTrigger::find_minimal_watches
FindMinimalWatches ==
    /\ roots.st = "patterns"
    /\ roots' = [roots EXCEPT !.st = "roots",
                              !.result = find_matching_paths(roots.patterns)]
    /\ UNCHANGED <<vars, pidfile, logfile, procs, own, call, last, reg, ext,
                   subst, td, cyc, more>>

\* any list of at most MaxPatterns patterns
InitWatch ==
    /\ VarsInit
    /\ SupInit
    /\ reg = NoReg
    /\ ext = Nothing /\ subst = Nothing /\ td = Nothing /\ cyc = Nothing
    /\ MoreInit
    /\ \E patterns \in PatternLists(MaxPatterns) :
          roots = [st |-> "patterns", patterns |-> patterns, result |-> {}]

NextWatch == FindMinimalWatches

SpecWatch == InitWatch /\ [][NextWatch]_allvars

(***************************************************************************)
(* Watch mode: the triggers of WatchTrigger::get_all (src/src/watch.rs)    *)
(* and the event loop of WatchCommand (src/src/cmd/watch.rs).              *)
(***************************************************************************)
\* a daemon command and two artifacts
TriggerTargets == {"c", "x", "y"}

IsArtifact(t) == t \in {"x", "y"}

\* ArtifactInfo.if_files_changed, as the patterns of the trigger
TriggerPatterns(t) ==
    CASE t = "x" -> <<"p1">>
      [] t = "y" -> <<"p2">>
      [] OTHER   -> << >>

\* the files that change, and Pattern::matches_path
ChangedFiles == {"f1", "f2"}
matches_path(pattern, file) ==
    \/ pattern = "p1" /\ file = "f1"
    \/ pattern = "p2" /\ file = "f2"

TriggerGraphs ==
    [TriggerTargets ->
        {<< >>} \cup {<<t>> : t \in TriggerTargets}
                \cup {<<q[1], q[2]>> :
                        q \in {r \in TriggerTargets \X TriggerTargets : r[1] # r[2]}}]

\* WatchTrigger::get_one
get_one(t) ==
    [target |-> t,
     paths |-> IF IsArtifact(t) THEN TriggerPatterns(t) ELSE << >>,
     and_then |-> << >>]

\* the loop over the requires of a target that has just got its trigger:
\* a requirement without a trigger is newly found, and the target is put
\* on the and_then list of each requirement
RECURSIVE note_requires(_, _, _, _)
RECURSIVE note_requires_new(_, _, _, _)
\* (mutant) the target is put on the and_then list of a requirement only
\* when the requirement is newly found
note_requires_new(st, t, reqs, first) ==
    IF reqs = << >> THEN st
    ELSE LET req == Head(reqs)
             fresh == first \/ req \notin st.triggers
             newly == IF fresh THEN st.newly \cup {req} ELSE st.newly
             before == IF req \in DOMAIN st.and_then_map
                       THEN st.and_then_map[req] ELSE << >>
             map == IF fresh
                    THEN [r \in DOMAIN st.and_then_map \cup {req} |->
                             IF r = req THEN Append(before, t)
                             ELSE st.and_then_map[r]]
                    ELSE st.and_then_map
         IN  note_requires_new([st EXCEPT !.newly = newly, !.and_then_map = map],
                               t, Tail(reqs), first)

note_requires(st, t, reqs, first) ==
    IF reqs = << >> THEN st
    ELSE LET req == Head(reqs)
             newly == IF first \/ req \notin st.triggers
                      THEN st.newly \cup {req} ELSE st.newly
             before == IF req \in DOMAIN st.and_then_map
                       THEN st.and_then_map[req] ELSE << >>
             map == [r \in DOMAIN st.and_then_map \cup {req} |->
                        IF r = req THEN Append(before, t)
                        ELSE st.and_then_map[r]]
         IN  note_requires([st EXCEPT !.newly = newly, !.and_then_map = map],
                           t, Tail(reqs), first)

\* get_all up to the while loop
GetAll(root) ==
    /\ trig.ph = "idle"
    /\ trig' = note_requires([trig EXCEPT !.ph = "loop", !.root = root,
                                          !.triggers = {root}],
                             root, trig.graph[root], TRUE)
    /\ UNCHANGED <<vars, pidfile, logfile, procs, own, call, last, reg, ext,
                   subst, td, roots, cyc, img, lut, starts>>

\* the head of the while loop: the newly found targets go to to_find
ExtendToFind ==
    /\ trig.ph = "loop"
    /\ trig.to_find = {}
    /\ trig.newly # {}
    /\ trig' = [trig EXCEPT !.to_find = trig.newly, !.newly = {}]
    /\ UNCHANGED <<vars, pidfile, logfile, procs, own, call, last, reg, ext,
                   subst, td, roots, cyc, img, lut, starts>>

\* one candidate of to_find.drain(), in the arbitrary order of the set
Candidate(next) ==
    /\ trig.ph = "loop"
    /\ next \in trig.to_find
    /\ LET st == [trig EXCEPT !.to_find = @ \ {next}, !.polls = @ + 1]
       IN  IF next \in trig.triggers
           THEN trig' = st
           ELSE trig' = note_requires([st EXCEPT !.triggers = @ \cup {next}],
                                      next, trig.graph[next], FALSE)
    /\ UNCHANGED <<vars, pidfile, logfile, procs, own, call, last, reg, ext,
                   subst, td, roots, cyc, img, lut, starts>>

\* after the while loop: each and_then list is put into its trigger, and
\* the triggers are returned in the arbitrary order of the map
SetAndThen ==
    /\ trig.ph = "loop"
    /\ trig.to_find = {}
    /\ trig.newly = {}
    /\ IF DOMAIN trig.and_then_map \subseteq trig.triggers
       THEN \E order \in [1..Cardinality(trig.triggers) -> trig.triggers] :
               /\ \A t \in trig.triggers : \E k \in DOMAIN order : order[k] = t
               /\ trig' = [trig EXCEPT
                              !.ph = "start",
                              !.result =
                                 [k \in DOMAIN order |->
                                     [get_one(order[k]) EXCEPT !.and_then =
                                         IF order[k] \in DOMAIN trig.and_then_map
                                         THEN trig.and_then_map[order[k]]
                                         ELSE << >>]]]
       ELSE trig' = [trig EXCEPT !.ph = "panicked"]
    /\ UNCHANGED <<vars, pidfile, logfile, procs, own, call, last, reg, ext,
                   subst, td, roots, cyc, img, lut, starts>>

\* execute: a startable root is started; its error ends the subcommand
StartRoot ==
    /\ trig.ph = "start"
    /\ \/ trig' = [trig EXCEPT !.ph = "watching"]
       \/ /\ ~IsArtifact(trig.root)
          /\ trig' = [trig EXCEPT !.ph = "ended", !.err = <<"start">>]
    /\ UNCHANGED <<vars, pidfile, logfile, procs, own, call, last, reg, ext,
                   subst, td, roots, cyc, img, lut, starts>>

\* WatchTrigger::matches
matches(trigger, files) ==
    \E k \in DOMAIN trigger.paths : \E f \in files :
        matches_path(trigger.paths[k], f)

\* what start_or_run is called on for the filtered triggers: the target of
\* each, then the targets of its and_then
RECURSIVE Calls(_)
Calls(filtered) ==
    IF filtered = << >> THEN << >>
    ELSE <<Head(filtered).target>> \o Head(filtered).and_then
         \o Calls(Tail(filtered))

\* the event loop receives a debounced batch of events
Batch(files) ==
    /\ trig.ph = "watching"
    /\ trig.batches < MaxBatches
    /\ trig' = [trig EXCEPT
                   !.ph = "dispatch",
                   !.batches = @ + 1,
                   !.files = files,
                   !.todo = Calls(SelectSeq(trig.result,
                                            LAMBDA w : matches(w, files))),
                   !.failed = "none",
                   !.log = << >>]
    /\ UNCHANGED <<vars, pidfile, logfile, procs, own, call, last, reg, ext,
                   subst, td, roots, cyc, img, lut, starts>>

\* the event loop receives an error of the watcher
BatchError ==
    /\ trig.ph = "watching"
    /\ trig.batches < MaxBatches
    /\ trig' = [trig EXCEPT !.batches = @ + 1, !.files = {}, !.log = << >>,
                            !.failed = "none"]
    /\ UNCHANGED <<vars, pidfile, logfile, procs, own, call, last, reg, ext,
                   subst, td, roots, cyc, img, lut, starts>>

\* (mutant) the error of a restart or run ends the event loop
StartOrRunOrFail ==
    /\ trig.ph = "dispatch"
    /\ trig.todo # << >>
    /\ LET t == Head(trig.todo)
           how == IF ~IsArtifact(t) THEN "restart_no_deps" ELSE "run_no_deps"
       IN  \/ trig' = [trig EXCEPT
                          !.todo = Tail(@),
                          !.log = Append(@, [t |-> t, how |-> how])]
           \/ trig' = [trig EXCEPT
                          !.ph = "ended",
                          !.err = <<"dispatch">>,
                          !.log = Append(@, [t |-> t, how |-> how])]
    /\ UNCHANGED <<vars, pidfile, logfile, procs, own, call, last, reg, ext,
                   subst, td, roots, cyc, img, lut, starts>>

\* start_or_run: a daemon is restarted, any other target run; an error is
\* logged and Ok returned
StartOrRun ==
    /\ trig.ph = "dispatch"
    /\ trig.todo # << >>
    /\ LET t == Head(trig.todo)
           how == IF ~IsArtifact(t) THEN "restart_no_deps" ELSE "run_no_deps"
       IN  \/ trig' = [trig EXCEPT
                          !.todo = Tail(@),
                          !.log = Append(@, [t |-> t, how |-> how])]
           \/ trig' = [trig EXCEPT
                          !.todo = Tail(@),
                          !.failed = IF trig.log = << >> THEN "first"
                                     ELSE IF @ = "none" THEN "later" ELSE @,
                          !.log = Append(@, [t |-> t, how |-> how])]
    /\ UNCHANGED <<vars, pidfile, logfile, procs, own, call, last, reg, ext,
                   subst, td, roots, cyc, img, lut, starts>>

\* the batch is done: the loop waits for the next
NextBatch ==
    /\ trig.ph = "dispatch"
    /\ trig.todo = << >>
    /\ trig' = [trig EXCEPT !.ph = "watching"]
    /\ UNCHANGED <<vars, pidfile, logfile, procs, own, call, last, reg, ext,
                   subst, td, roots, cyc, img, lut, starts>>

\* `pls watch` on any target of any requires graph
InitTriggers ==
    /\ VarsInit
    /\ SupInit
    /\ reg = NoReg
    /\ ext = Nothing /\ subst = Nothing /\ td = Nothing /\ roots = Nothing
    /\ cyc = Nothing /\ img = Nothing /\ lut = Nothing /\ starts = Nothing
    /\ \E g \in TriggerGraphs :
          trig = [graph |-> g, ph |-> "idle", root |-> "none", triggers |-> {},
                  to_find |-> {}, newly |-> {}, and_then_map |-> << >>,
                  polls |-> 0, result |-> << >>, batches |-> 0, files |-> {},
                  todo |-> << >>, log |-> << >>, failed |-> "none", err |-> << >>]

NextTriggers ==
    \/ \E root \in TriggerTargets : GetAll(root)
    \/ ExtendToFind
    \/ \E next \in TriggerTargets : Candidate(next)
    \/ SetAndThen
    \/ StartRoot
    \/ \E files \in SUBSET ChangedFiles \ {{}} : Batch(files)
    \/ BatchError
    \/ StartOrRun
    \/ NextBatch

SpecTriggers == InitTriggers /\ [][NextTriggers]_allvars

(***************************************************************************)
(* The build of a container image: Artifact::build_target_inner            *)
(* (src/src/target.rs) and ContainerArtifact::build                        *)
(* (src/src/targets/artifact/container_image.rs).  Three processes: the    *)
(* parent, the child `podman build`, and the reader thread of its stdout.  *)
(***************************************************************************)
\* the lines that the child writes to its stdout
RECURSIVE LinesOf(_)
LinesOf(n) ==
    IF n = 0 THEN {<< >>}
    ELSE LinesOf(n - 1)
         \cup {Append(s, <<l>>) : s \in LinesOf(n - 1), l \in {"sha1", "sha2"}}

\* OutputsManager::store_output
store_output(outputs, name, key, value) ==
    [n \in DOMAIN outputs \cup {name} |->
        IF n = name
        THEN [k \in (IF n \in DOMAIN outputs THEN DOMAIN outputs[n] ELSE {})
                    \cup {key} |->
                 IF k = key THEN value ELSE outputs[n][k]]
        ELSE outputs[n]]

\* build_target_inner: an artifact that should_rerun finds up to date is
\* skipped; otherwise build spawns the child and the reader thread
BuildImage ==
    /\ img.parent = "idle"
    /\ \/ img' = [img EXCEPT !.parent = "returned", !.res = Ok(<<>>),
                             !.skipped = TRUE]
       \/ img' = [img EXCEPT !.parent = "wait", !.child = "running",
                             !.reader = "reading"]
    /\ UNCHANGED <<vars, pidfile, logfile, procs, own, call, last, reg, ext,
                   subst, td, roots, cyc, trig, lut, starts>>

\* the child writes its next line; it waits while the pipe is full
ChildWrite ==
    /\ img.child = "running"
    /\ img.written < Len(img.lines)
    /\ Len(img.pipe) < PipeCap
    /\ img' = [img EXCEPT !.written = @ + 1,
                          !.pipe = Append(@, img.lines[img.written + 1])]
    /\ UNCHANGED <<vars, pidfile, logfile, procs, own, call, last, reg, ext,
                   subst, td, roots, cyc, trig, lut, starts>>

\* the child exits, with success after its last line or with a failure at
\* any point
ChildExit(success) ==
    /\ img.child = "running"
    /\ success => img.written = Len(img.lines)
    /\ img' = [img EXCEPT !.child = "exited", !.success = success]
    /\ UNCHANGED <<vars, pidfile, logfile, procs, own, call, last, reg, ext,
                   subst, td, roots, cyc, trig, lut, starts>>

\* the reader thread: one turn of `for line in stdout_reader.lines()`
ReaderLine ==
    /\ img.reader = "reading"
    /\ img.pipe # << >>
    /\ img' = [img EXCEPT !.last_line = Head(img.pipe), !.pipe = Tail(@)]
    /\ UNCHANGED <<vars, pidfile, logfile, procs, own, call, last, reg, ext,
                   subst, td, roots, cyc, trig, lut, starts>>

\* the reader thread at the end of the stream: tx.send(last_line)
ReaderSend ==
    /\ img.reader = "reading"
    /\ img.pipe = << >>
    /\ img.child = "exited"
    /\ img' = [img EXCEPT !.reader = "done", !.chan = Append(@, img.last_line)]
    /\ UNCHANGED <<vars, pidfile, logfile, procs, own, call, last, reg, ext,
                   subst, td, roots, cyc, trig, lut, starts>>

\* child.wait()
ChildWait ==
    /\ img.parent = "wait"
    /\ img.child = "exited"
    /\ img' = [img EXCEPT !.parent = "join"]
    /\ UNCHANGED <<vars, pidfile, logfile, procs, own, call, last, reg, ext,
                   subst, td, roots, cyc, trig, lut, starts>>

\* (mutant) the parent goes on without joining the reader thread
HandleDetach ==
    /\ img.parent = "join"
    /\ img' = [img EXCEPT !.parent = "check"]
    /\ UNCHANGED <<vars, pidfile, logfile, procs, own, call, last, reg, ext,
                   subst, td, roots, cyc, trig, lut, starts>>

\* handle.join()
HandleJoin ==
    /\ img.parent = "join"
    /\ img.reader = "done"
    /\ img' = [img EXCEPT !.parent = "check"]
    /\ UNCHANGED <<vars, pidfile, logfile, procs, own, call, last, reg, ext,
                   subst, td, roots, cyc, trig, lut, starts>>

\* the status is tested, then rx.try_iter() stores each message as sha;
\* after the build the sentinel is created
Harvest ==
    /\ img.parent = "check"
    /\ IF ~img.success
       THEN img' = [img EXCEPT !.parent = "returned",
                               !.res = Err(<<"Command failed with exit code">>)]
       ELSE img' = [img EXCEPT
                       !.parent = "returned",
                       !.res = Ok(<<>>),
                       !.chan = << >>,
                       !.outputs =
                          IF img.chan = << >> THEN @
                          ELSE store_output(@, ThatName, <<"sha">>,
                                            img.chan[Len(img.chan)])]
    /\ UNCHANGED <<vars, pidfile, logfile, procs, own, call, last, reg, ext,
                   subst, td, roots, cyc, trig, lut, starts>>

\* later in the invocation a target that requires the image expands
\* {command.exec.t.output.sha}
ExpandSha ==
    /\ img.parent = "returned"
    /\ img.res.ok
    /\ img.expanded = Nothing
    /\ img' = [img EXCEPT !.expanded =
                  resolve_substitutions_inner(
                      [ContextOf({}) EXCEPT !.outputs = img.outputs],
                      <<"{", "command", ".", "exec", ".", "t", ".", "output",
                        ".", "sha", "}">>,
                      None, None)]
    /\ UNCHANGED <<vars, pidfile, logfile, procs, own, call, last, reg, ext,
                   subst, td, roots, cyc, trig, lut, starts>>

\* an invocation with an empty outputs store, or one that holds the output
\* of another step; the child writes up to MaxLines lines
InitImage ==
    /\ VarsInit
    /\ SupInit
    /\ reg = NoReg
    /\ ext = Nothing /\ subst = Nothing /\ td = Nothing /\ roots = Nothing
    /\ cyc = Nothing /\ trig = Nothing /\ lut = Nothing /\ starts = Nothing
    /\ \E lines \in LinesOf(MaxLines),
          outputs \in {<< >>, ThisName :> (<<"o">> :> <<"4">>)} :
          img = [lines |-> lines, written |-> 0, pipe |-> << >>,
                 child |-> "none", success |-> FALSE, reader |-> "none",
                 last_line |-> << >>, chan |-> << >>, parent |-> "idle",
                 outputs |-> outputs, outputs0 |-> outputs, res |-> Nothing,
                 skipped |-> FALSE, expanded |-> Nothing]

NextImage ==
    \/ BuildImage
    \/ ChildWrite
    \/ \E success \in BOOLEAN : ChildExit(success)
    \/ ReaderLine
    \/ ReaderSend
    \/ ChildWait
    \/ HandleJoin
    \/ Harvest
    \/ ExpandSha

SpecImage == InitImage /\ [][NextImage]_allvars

(***************************************************************************)
(* latest_update_time applied to the lists of modification times of a      *)
(* glob (src/src/target.rs, src/src/runner.rs).                            *)
(***************************************************************************)
LastRuns == {Never} \cup 1..3

RECURSIVE TimesOf(_)
TimesOf(n) ==
    IF n = 0 THEN {<< >>}
    ELSE TimesOf(n - 1)
         \cup {Append(s, t) : s \in TimesOf(n - 1), t \in LastRuns}

\* the call latest_update_time(times)
LatestUpdateTime ==
    /\ lut.ph = "call"
    /\ lut' = [lut EXCEPT !.ph = "done", !.latest = latest_update_time(lut.times)]
    /\ UNCHANGED <<vars, pidfile, logfile, procs, own, call, last, reg, ext,
                   subst, td, roots, cyc, trig, img, starts>>

\* the same entries met in another order (glob yields them in directory
\* order)
NextTimes ==
    /\ lut.ph = "done"
    /\ \E times \in Reorderings(lut.times) :
          /\ times # lut.times
          /\ lut' = [lut EXCEPT !.ph = "call", !.times = times,
                                !.before = Some(lut.latest)]
    /\ UNCHANGED <<vars, pidfile, logfile, procs, own, call, last, reg, ext,
                   subst, td, roots, cyc, trig, img, starts>>

InitTimes ==
    /\ VarsInit
    /\ SupInit
    /\ reg = NoReg
    /\ ext = Nothing /\ subst = Nothing /\ td = Nothing /\ roots = Nothing
    /\ cyc = Nothing /\ trig = Nothing /\ img = Nothing /\ starts = Nothing
    /\ \E times \in TimesOf(MaxTimes) :
          lut = [ph |-> "call", times |-> times, latest |-> Never,
                 before |-> None]

SpecTimes == InitTimes /\ [][LatestUpdateTime \/ NextTimes]_allvars

(***************************************************************************)
(* Two invocations of `pls start` for one target, as separate processes    *)
(* that share the metadata directory: spawn_command_with_pidfile           *)
(* (src/src/commands.rs) step by step.                                      *)
(***************************************************************************)
Invocations == {1, 2}
\* the pid of the child that invocation p spawns; invocation 0 is an
\* earlier one, whose pid file may be left
ChildPid(p) == 10 + p

\* pid_path.exists(), read_to_string, is_process_alive
CheckPidFile(p) ==
    /\ starts.pc[p] = "check"
    /\ IF starts.pid_file # 0 /\ starts.pid_file \in starts.alive
       THEN starts' = [starts EXCEPT !.pc[p] = "failed"]
       ELSE starts' = [starts EXCEPT !.pc[p] = "create"]
    /\ UNCHANGED <<vars, pidfile, logfile, procs, own, call, last, reg, ext,
                   subst, td, roots, cyc, trig, img, lut>>

\* File::create(log_path) truncates the log that the daemon will write
CreateLog(p) ==
    /\ starts.pc[p] = "create"
    /\ starts' = [starts EXCEPT !.pc[p] = "spawn", !.log_file = p]
    /\ UNCHANGED <<vars, pidfile, logfile, procs, own, call, last, reg, ext,
                   subst, td, roots, cyc, trig, img, lut>>

\* on_start(), cmd.spawn()
SpawnChild(p) ==
    /\ starts.pc[p] = "spawn"
    /\ starts' = [starts EXCEPT !.pc[p] = "write",
                                !.alive = @ \cup {ChildPid(p)},
                                !.spawned = @ \cup {ChildPid(p)}]
    /\ UNCHANGED <<vars, pidfile, logfile, procs, own, call, last, reg, ext,
                   subst, td, roots, cyc, trig, img, lut>>

\* std::fs::write(pid_path, child.id())
WritePidFile(p) ==
    /\ starts.pc[p] = "write"
    /\ starts' = [starts EXCEPT !.pc[p] = "done", !.pid_file = ChildPid(p)]
    /\ UNCHANGED <<vars, pidfile, logfile, procs, own, call, last, reg, ext,
                   subst, td, roots, cyc, trig, img, lut>>

\* a daemon exits by itself
DaemonExits ==
    /\ \E child \in starts.alive :
          starts' = [starts EXCEPT !.alive = @ \ {child}]
    /\ UNCHANGED <<vars, pidfile, logfile, procs, own, call, last, reg, ext,
                   subst, td, roots, cyc, trig, img, lut>>

\* no pid file, or the pid file of an earlier start whose daemon is alive
\* or gone
InitStarts ==
    /\ VarsInit
    /\ SupInit
    /\ reg = NoReg
    /\ ext = Nothing /\ subst = Nothing /\ td = Nothing /\ roots = Nothing
    /\ cyc = Nothing /\ trig = Nothing /\ img = Nothing /\ lut = Nothing
    /\ \E pid_file \in {0, ChildPid(0)}, alive \in SUBSET {ChildPid(0)} :
          /\ alive # {} => pid_file = ChildPid(0)
          /\ starts = [pc |-> [p \in Invocations |-> "check"],
                       pid_file |-> pid_file, alive |-> alive,
                       spawned |-> {}, log_file |-> 0]

NextStarts ==
    \/ \E p \in Invocations : CheckPidFile(p)
    \/ \E p \in Invocations : CreateLog(p)
    \/ \E p \in Invocations : SpawnChild(p)
    \/ \E p \in Invocations : WritePidFile(p)
    \/ DaemonExits

SpecStarts == InitStarts /\ [][NextStarts]_allvars

(***************************************************************************)
(* The same walk over the acyclic graphs, with the daemons that run: a     *)
(* required daemon is started with spawn_command_with_pidfile              *)
(* (src/src/commands.rs), every command exits with status 0.               *)
(***************************************************************************)
\* the targets that t requires, directly or through others
Required(g, t) ==
    LET Succ(S) == UNION {Range(g[x]) : x \in S}
        s1 == Succ({t})
        s2 == s1 \cup Succ(s1)
    IN  s2 \cup Succ(s2)

Acyclic(g) == \A t \in GraphTargets : t \notin Required(g, t)

\* after the loop of run_required the target's own step: start refuses a
\* daemon whose pid file names a live process, and otherwise spawns it and
\* leaves it running (no caller fills to_stop); run and build execute the
\* command, which exits with status 0
SpawnOrExec ==
    /\ cyc.stack # << >>
    /\ GraphTop.ph = "req"
    /\ GraphTop.i > Len(cyc.graph[GraphTop.t])
    /\ IF GraphTop.op = "start"
       THEN IF GraphTop.t \in cyc.running
            THEN cyc' = [cyc EXCEPT
                            !.stack[Len(cyc.stack)].ph = "ret",
                            !.stack[Len(cyc.stack)].res =
                                <<"Daemon for is already running">>]
            ELSE cyc' = [cyc EXCEPT
                            !.stack[Len(cyc.stack)].ph = "ret",
                            !.stack[Len(cyc.stack)].res = <<"ok">>,
                            !.running = @ \cup {GraphTop.t},
                            !.started = @ \cup {GraphTop.t},
                            !.acts = @ + 1]
       ELSE cyc' = [cyc EXCEPT !.stack[Len(cyc.stack)].ph = "ret",
                               !.stack[Len(cyc.stack)].res = <<"ok">>,
                               !.acts = @ + 1]
    /\ UNCHANGED <<vars, pidfile, logfile, procs, own, call, last, reg, ext,
                   subst, td, roots, more>>

\* a daemon ends by itself
DaemonEnds ==
    /\ \E d \in cyc.running : cyc' = [cyc EXCEPT !.running = @ \ {d}]
    /\ UNCHANGED <<vars, pidfile, logfile, procs, own, call, last, reg, ext,
                   subst, td, roots, more>>

\* any acyclic requires graph over the three targets, no daemon running
InitRun ==
    /\ VarsInit
    /\ SupInit
    /\ reg = NoReg
    /\ ext = Nothing /\ subst = Nothing /\ td = Nothing /\ roots = Nothing
    /\ MoreInit
    /\ \E g \in {h \in [GraphTargets -> RequiresLists] : Acyclic(h)} :
          cyc = [graph |-> g, stack |-> << >>, acts |-> 0, res |-> <<"none">>,
                 root |-> "none", running |-> {}, started |-> {}]

NextRun ==
    \/ \E t \in GraphTargets : InvokeOn("run", t)
    \/ FindRequired
    \/ RunRequired
    \/ SpawnOrExec
    \/ ReturnTo
    \/ DaemonEnds

SpecRun == InitRun /\ [][NextRun]_allvars

TypeOK ==
    /\ now \in Nat
    /\ \A f \in Files : mtime[f] \in 0..(now - 1)
    /\ \A t \in Targets : sentinel[t] \in 0..(now - 1)
    /\ \A t \in Targets : pid[t] \in {"none", "alive"}
    /\ watcher \in {"parked", "draining", "panicked"}

(***************************************************************************)
(* Properties                                                              *)
(***************************************************************************)
Frames == {stack[k] : k \in 1..Len(stack)}

\* once the terminal action of a call has begun, no step of that call changes
\* the sentinel or the pid of one of its transitive requirements
StableWhileActing ==
    [][\A k \in 1..Len(stack) :
          (stack[k].begun /\ k <= Len(stack')) =>
              \A u \in TransReq(stack[k].t) :
                  sentinel'[u] = sentinel[u] /\ pid'[u] = pid[u]]_vars

\* C1: In run(T), build(T) and start(T) the action of every target in T's
\* requires is executed to completion, in declaration order, before T's
\* terminal action begins: the calls a frame has dispatched and the calls
\* that have returned Ok follow the requires list, a requirement is
\* dispatched only when every earlier one has returned, a caller waits in
\* its loop while a requirement runs (and gives up without starting its own
\* action when the requirement fails), and a frame whose terminal action has
\* begun has had every requirement return Ok.
C1_RequiresBeforeAction ==
    \A k \in 1..Len(stack) :
        LET f == stack[k]
            req == requires(f.t)
        IN  /\ Len(f.beg) <= Len(req)
            /\ f.beg = SubSeq(req, 1, Len(f.beg))
            /\ f.fin = SubSeq(req, 1, Len(f.fin))
            /\ IF k < Len(stack)
               THEN /\ ~f.begun
                    /\ Len(f.beg) = Len(f.fin) + 1
                    /\ stack[k + 1].t = f.beg[Len(f.beg)]
               ELSE \/ Len(f.beg) = Len(f.fin)
                    \/ /\ Len(f.beg) = Len(f.fin) + 1
                       /\ f.res = "err"
                       /\ ~f.begun
            /\ f.begun => f.fin = req

\* C1 witness: the command of all, run with requirements [db, app], is in
\* progress after db was started and app was built.
C1_Witness ==
    /\ ~Idle
    /\ Top.t = "all"
    /\ Top.op = "run"
    /\ Top.ph = "act"
    /\ Top.fin = <<"db", "app">>
    /\ pid["db"] = "alive"
    /\ sentinel["app"] > 0

\* C2: When run(T) or build(T) returns, every daemon it started as a
\* requirement of T has been stopped, in the reverse of the order of start.
C2_DaemonsStopped ==
    \A f \in Frames :
        (f.ph = "ret" /\ f.op \in {"run", "build"}) =>
            /\ f.stopped = Reverse(f.started)
            /\ \A d \in Range(f.started) : pid[d] # "alive"

\* C3: For a successful run(T), each target in the transitive requires of T
\* has a last_run sentinel (not in the future) or is a daemon that is
\* running.  Read where the successful run returns: between the beginning of
\* T's action and the return, no step changes a sentinel or a pid of a
\* requirement (StableWhileActing), so this is the state the action began in.
C3_RequirementsSatisfied ==
    \A f \in Frames :
        (f.op = "run" /\ f.begun /\ f.ph = "ret" /\ f.res = "ok") =>
            \A u \in TransReq(f.t) :
                \/ sentinel[u] > 0 /\ sentinel[u] <= now
                \/ kind(u) # "artifact" /\ daemon(u) /\ pid[u] = "alive"

\* C4: build(T) of an artifact with if_files_changed, called when its inputs,
\* its outputs and the sentinels of its requirements are all older than its
\* own sentinel, does not execute the build command and leaves the sentinel
\* as it was.
C4_BuildIdempotent ==
    \A f \in Frames :
        (f.op = "build" /\ if_files_changed(f.t).some /\ f.pre) =>
            /\ ~f.begun
            /\ sentinel[f.t] = f.s0

\* The last-run time as stated: the sentinel's mtime when updates_paths is
\* unset; else Never when no declared output exists, and the latest mtime of
\* the outputs that exist.
ExistingTimes(paths) ==
    {mtime[paths[k]] : k \in {j \in 1..Len(paths) : mtime[paths[j]] > 0}}

LastRunTime(t) ==
    IF updates_paths(t).some
    THEN LET ts == ExistingTimes(updates_paths(t).v)
         IN  IF ts = {} THEN Never
             ELSE CHOOSE x \in ts : \A y \in ts : y <= x
    ELSE sentinel[t]

InputsNewer(t, lr) == \E m \in ExistingTimes(if_files_changed(t).v) : m > lr

RequirementStale(t, lr) ==
    \E r \in Range(requires(t)) : sentinel[r] = 0 \/ sentinel[r] > lr

\* the build of an artifact with if_files_changed has just been decided
Decided ==
    /\ ~Idle
    /\ Top.op = "build"
    /\ kind(Top.t) = "artifact"
    /\ if_files_changed(Top.t).some
    /\ Top.ph \in {"act", "skip"}

C7_SentinelAfterSuccess ==
    [][\A t \in Targets :
          sentinel'[t] # sentinel[t] =>
              /\ ~Idle
              /\ Top.t = t
              /\ Top.begun
              /\ Top.ph = "done"
              /\ Top.res = "ok"]_vars

\* C7 witness: the action of a target that has a sentinel failed, and the
\* sentinel is what it was before the call.
C7_Witness ==
    \E f \in Frames :
        /\ f.begun
        /\ f.res = "err"
        /\ f.s0 > 0
        /\ sentinel[f.t] = f.s0

\* C8: On a stop signal the cleanup entries are executed in the reverse of
\* the order of push, all of them before the process exits with code 130.
C8_DrainInReverse ==
    watcher \in {"draining", "panicked"} =>
        /\ \A k \in 1..Len(ran) : ran[k] = drain0[Len(drain0) + 1 - k]
        /\ (watcher = "draining" /\ cleanups = << >>) => Len(ran) = Len(drain0)

\* C9: No thunk is executed more than once, and every thunk on the stack
\* when a drain begins is executed by that drain, also when an earlier thunk
\* of the drain fails.
C9_EachThunkOnce ==
    /\ \A j, k \in 1..Len(ran) : ran[j] = ran[k] => j = k
    /\ (watcher = "panicked" \/ (watcher = "draining" /\ cleanups = << >>)) =>
           Range(ran) = Range(drain0)

\* C10: When a foreground run returns normally the cleanup stack holds
\* exactly the entries it held when the run began.
C10_PopOnExit ==
    \A f \in Frames :
        (f.op = "run" /\ f.ph = "ret" /\ f.res = "ok") => cleanups = f.c0

\* C11: start with a pid file that names a live process fails with "already
\* running", spawns nothing and leaves the pid file and the log file as they
\* were; with no pid file, or one that names a dead process, start spawns
\* the process (unless the system refuses the spawn) and the pid file names
\* the new process.
C11_StartGate ==
    (call.op = "start" /\ call.pc = "ret") =>
        IF call.alive0
        THEN /\ call.res = "already running"
             /\ call.spawned = 0
             /\ pidfile = call.pid0
             /\ logfile = call.log0
        ELSE /\ call.res \in {"ok", "spawn failed"}
             /\ call.res = "ok" =>
                    /\ call.spawned # 0
                    /\ call.spawned # call.pid0
                    /\ pidfile = call.spawned

\* C12: stop sends SIGTERM first, probes the process every 100 ms, sends
\* SIGKILL only once 10 s have passed, never to a process that exited within
\* the 10 s, and sends no signal when the pid file names a dead process.
C12_StopPolicy ==
    call.op = "stop" =>
        /\ call.first \in {"none", "TERM"}
        /\ call.gap \in {-1, 1}
        /\ ~call.kill_early
        /\ ~call.kill_exited
        /\ (call.term \/ call.kill) => call.alive0

\* C13: stop of a running daemon terminates, for a process that exits on
\* SIGTERM and for one that ignores it, a child of the stopping invocation or
\* not; when it returns success the process is absent and the pid file is
\* removed.
C13_StopTerminates ==
    /\ (call.op = "stop" /\ call.alive0 /\ call.pc # "ret")
           ~> (call.op = "stop" /\ call.pc = "ret")
    /\ [](call.op = "stop" /\ call.pc = "ret" /\ call.res = "ok" =>
              /\ pidfile = 0
              /\ procs[call.pid].st = "gone")

\* C13 witness: the stop of a daemon started by an earlier invocation, which
\* ignores SIGTERM, has returned success after SIGKILL.
C13_Witness ==
    /\ call.op = "stop"
    /\ call.pc = "ret"
    /\ call.res = "ok"
    /\ call.alive0
    /\ ~call.child
    /\ call.kill
    /\ procs[call.pid].stubborn

\* C14: In the dependency walk a required artifact is called through build
\* (the staleness-gated path), a required daemon command through start and
\* any other required command through run, each with an empty argument
\* list, whatever arguments the root call was given.
C14_DispatchByKind ==
    \A k \in 2..Len(stack) :
        LET f == stack[k] IN
        /\ f.args = << >>
        /\ f.t = stack[k - 1].beg[Len(stack[k - 1].beg)]
        /\ IF kind(f.t) = "artifact" THEN f.op = "build"
           ELSE IF daemon(f.t) THEN f.op = "start"
           ELSE f.op = "run"
        /\ (f.ph = "skip") => f.op = "build"
        /\ (f.op = "build" /\ f.ph \in {"act", "skip"}) =>
               (f.ph = "act" <=> should_rerun(f.t))

\* C14 witness: the root was given arguments, and a required artifact (app),
\* after a required daemon (db) was started, is skipped as up to date.
C14_Witness ==
    /\ Len(stack) = 2
    /\ stack[1].args # << >>
    /\ stack[1].fin = <<"db">>
    /\ stack[2].t = "app"
    /\ stack[2].ph = "skip"

\* the terminal step of run of an artifact has just been decided
RunDecided ==
    /\ ~Idle
    /\ Top.op = "run"
    /\ kind(Top.t) = "artifact"
    /\ Top.ph \in {"act", "skip"}

C16_BuildOfCommandRefused ==
    [][\A t \in Targets :
          (runs' = runs + 1 /\ last'.op = "build" /\ last'.t = t
              /\ kind(t) # "artifact") =>
              /\ last'.err = <<"Target <", t,
                               "> is not buildable, use the run command instead">>
              /\ UNCHANGED <<now, mtime, sentinel, pid, stack, cleanups,
                             pushed, pidfile, logfile, procs, own, call>>]_allvars

\* C16 witness: build of the command all, which has requirements, was
\* refused, after an earlier subcommand had created sentinels.
C16_Witness ==
    /\ last.op = "build"
    /\ last.t = "all"
    /\ last.err # << >>
    /\ sentinel["app"] > 0
    /\ Idle

\* the declared targets, and the lookup made
Declared == DOMAIN reg.config
Looked == reg.look.cmd # "none"

\* C17: get_target of a reference with a dot returns Found with the
\* declared target whose tag.name is the reference, NotFound when no
\* declared target has that tag.name, and never Duplicates.
C17_QualifiedLookup ==
    (Looked /\ contains_dot(reg.look.name)) =>
        IF \E q \in Declared : to_string(q) = reg.look.name
        THEN /\ reg.look.res.r = "Found"
             /\ to_string(reg.look.res.t) = reg.look.name
        ELSE reg.look.res.r = "NotFound"

\* the declared targets of the short name x
Named(x) == {q \in Declared : q.name = x}

\* C18: for a reference x without a dot, get_target returns Found iff
\* exactly one declared target has name x, NotFound iff none has, and
\* Duplicates(D) iff two or more have; D has at least two entries, pairwise
\* distinct, each the tag.name of a declared target of name x.
C18_ShortLookup ==
    (Looked /\ ~contains_dot(reg.look.name)) =>
        LET x == reg.look.name
            res == reg.look.res
            n == Cardinality(Named(x))
        IN  /\ res.r = "Found" <=> n = 1
            /\ res.r = "NotFound" <=> n = 0
            /\ res.r = "Duplicates" <=> n >= 2
            /\ res.r = "Found" => res.t \in Named(x)
            /\ res.r = "Duplicates" =>
                  /\ Len(res.d) >= 2
                  /\ \A i, j \in 1..Len(res.d) : i # j => res.d[i] # res.d[j]
                  /\ \A i \in 1..Len(res.d) :
                        /\ from_string(res.d[i]).name = x
                        /\ \E q \in Named(x) : to_string(q) = res.d[i]
                  /\ Len(res.d) = n

\* C18 witness: three targets of one name were reported as Duplicates.
C18_Witness ==
    /\ Looked
    /\ reg.look.res.r = "Duplicates"
    /\ Len(reg.look.res.d) = 3
    /\ reg.look.res.d[1] = <<"command", "exec", "a">>

\* a list of strings in sorted order
IsSorted(v) == \A i, j \in 1..Len(v) : i < j => ~StrLess(v[j], v[i])

\* C19: whatever the subcommand and whatever the iteration order of the
\* registry, the error for an ambiguous short name lists the candidates in
\* sorted order.
C19_CandidatesSorted ==
    (Looked /\ reg.look.res.r = "Duplicates") =>
        /\ IsSorted(reg.look.err.values)
        /\ Range(reg.look.err.values) = Range(reg.look.res.d)

\* the targets that a requires entry r names: by short name or by tag.name
Matches(r) == {q \in Declared : q.name = r \/ to_string(q) = r}

\* the requires entries that loading resolves: of every declared target,
\* its own
Entries == UNION {Range(reg.config[q].requires) : q \in Declared}

\* the chain of extends of a target, itself included
RECURSIVE Bases(_, _)
Bases(q, n) ==
    IF n = 0 \/ reg.config[q].extends = << >> THEN {q}
    ELSE LET b == FullyQualifiedName(q.tag, reg.config[q].extends)
         IN  IF b \in Declared THEN {q} \cup Bases(b, n - 1) ELSE {q}

\* C20: a context is produced only if every requires entry names exactly
\* one declared target, and then every name in every target's requires
\* list, inherited ones included, is a target of the registry, and every
\* requires entry of the target and of its bases is resolved in the list;
\* an entry that matches no target, or two or more, makes loading fail.
C20_RequiresResolved ==
    /\ reg.ctx.st = "ok" =>
          /\ DOMAIN reg.ctx.targets = Declared
          /\ \A r \in Entries : Cardinality(Matches(r)) = 1
          /\ \A q \in Declared :
                /\ Range(reg.ctx.targets[q].requires) \subseteq Declared
                /\ Range(reg.ctx.targets[q].requires) =
                      UNION {Matches(r) : r \in
                                UNION {Range(reg.config[b].requires) :
                                          b \in Bases(q, Cardinality(Declared))}}
    /\ (reg.ctx.st # "unloaded" /\ \E r \in Entries : Cardinality(Matches(r)) # 1)
          => reg.ctx.st = "error"

\* C20 witness: a context was produced in which a target has inherited, by
\* extends, a requires entry given as a short name.
C20_Witness ==
    /\ reg.ctx.st = "ok"
    /\ \E q \in Declared :
          /\ reg.config[q].extends # << >>
          /\ reg.config[q].requires = << >>
          /\ reg.ctx.targets[q].requires # << >>
          /\ q \notin Range(reg.ctx.targets[q].requires)

\* the extends chain of n, from the root base down to n
RECURSIVE ChainOf(_)
ChainOf(n) ==
    IF ext.config[n].extends.some
    THEN ChainOf(ext.config[n].extends.v) \o <<n>>
    ELSE <<n>>

\* the values that the tables of the chain give to field f, base first
Given(n, f) ==
    LET c == SelectSeq(ChainOf(n), LAMBDA m : ext.config[m][f].some)
    IN  [i \in 1..Len(c) |-> ext.config[c[i]][f].v]

RECURSIVE Overridden(_)
Overridden(maps) ==
    IF maps = << >> THEN << >>
    ELSE LET m == maps[Len(maps)]
             below == Overridden(SubSeq(maps, 1, Len(maps) - 1))
         IN  [k \in DOMAIN below \cup DOMAIN m |->
                 IF k \in DOMAIN m THEN m[k] ELSE below[k]]

\* the fold of the chain under the per-field rules
FoldOf(n, f) ==
    LET g == Given(n, f)
    IN  CASE f \in {"image", "command"} -> IF g = << >> THEN "" ELSE g[Len(g)]
          [] f = "workdir" -> IF g = << >> THEN None ELSE Some(g[Len(g)])
          [] f = "daemon" -> IF g = << >> THEN FALSE ELSE g[Len(g)]
          [] f = "env" -> Flatten(g)
          [] f \in {"mount", "variables"} -> Overridden(g)
          [] f = "updates_paths" -> IF g = << >> THEN None ELSE Some(Flatten(g))

FoldedAs(n, F) == \A f \in F \cap Fields(ext.kind) : ext.ctx.targets[n][f] = FoldOf(n, f)

\* C21: the record made of a target equals the fold of its extends chain
\* from the root base down to the target: scalars, optional scalars and
\* booleans take the last value given (booleans default to false), env is
\* the base's entries followed by the child's, mount and variables are the
\* base map overridden by the child, updates_paths is the base's entries
\* followed by the child's, None when none is given.
C21_FoldOfChain ==
    ext.ctx.st = "ok" =>
        \A n \in DOMAIN ext.ctx.targets :
            FoldedAs(n, {"image", "command", "workdir", "daemon", "env",
                         "mount", "variables", "updates_paths"})

\* C22: a placeholder {key} of target n expands to the value of key in the
\* variable map of the record made of n: the base's value for a key given
\* only by a base, the target's own for a key given by both.
C22_MaterializedVariables ==
    (ext.ctx.st = "ok" /\ ext.look.key # "none") =>
        LET variables == ext.ctx.targets[ext.look.n].variables
        IN  IF ext.look.key \in DOMAIN variables
            THEN ext.look.res = Ok(variables[ext.look.key])
            ELSE ~ext.look.res.ok

\* the target that q extends, when it is declared
BaseOf(q) == get_lookup_name(reg.config[q].extends, q.tag)

\* q is reached again after n or fewer steps of extends from cur
RECURSIVE ExtendsBack(_, _, _)
ExtendsBack(q, cur, n) ==
    /\ n > 0
    /\ reg.config[cur].extends # << >>
    /\ BaseOf(cur) \in Declared
    /\ \/ BaseOf(cur) = q
       \/ ExtendsBack(q, BaseOf(cur), n - 1)

\* the extends relation of the configuration has a cycle
ExtendsCycle == \E q \in Declared : ExtendsBack(q, q, Cardinality(Declared))

\* C23: loading a configuration whose extends relation has a cycle ends
\* with a loading error that is reported; the resolution does not recurse
\* until the stack is exhausted.
C23_ExtendsCycleReported ==
    (reg.ctx.st # "unloaded" /\ ExtendsCycle) =>
        /\ reg.ctx.st = "error"
        /\ reg.ctx.err # <<"stack overflow">>

RequiresItself(t) == <<"Target <", t, "> requires itself">>

SelfRequiring(t) == t \in Range(cyc.graph[t])

\* C25: a call of run, build or start on a target whose requires list
\* holds the target's own name, at any position, makes no call for a
\* required target and carries out no terminal action (its own or any
\* other): it goes from the look through the list straight to returning
\* the 'requires itself' error.
C25_SelfRequireRejected ==
    /\ \A k \in DOMAIN cyc.stack :
          LET f == cyc.stack[k]
          IN  SelfRequiring(f.t) =>
                 /\ f.ph \in {"find", "ret"}
                 /\ f.disp = 0
                 /\ cyc.acts = f.a0
                 /\ f.ph = "ret" => f.res = RequiresItself(f.t)
    /\ (cyc.res # <<"none">> /\ SelfRequiring(cyc.root)) =>
          /\ cyc.res = RequiresItself(cyc.root)
          /\ cyc.acts = 0

\* a call on a target that requires itself in second place, after another
\* target, has returned
C25_Witness ==
    /\ cyc.root # "none"
    /\ Len(cyc.graph[cyc.root]) = 2
    /\ cyc.graph[cyc.root][2] = cyc.root
    /\ cyc.res = RequiresItself(cyc.root)

\* the placeholders of a text from a position on, from left to right: what
\* stands between a "{" and the first "}" after it
RECURSIVE Placeholders(_, _)
Placeholders(text, from) ==
    LET open == find(text, "{", from)
        close == IF open = 0 THEN 0 ELSE find(text, "}", open)
    IN  IF open = 0 \/ close = 0 THEN << >>
        ELSE <<SubSeq(text, open + 1, close - 1)>> \o Placeholders(text, close + 1)

\* the text in which every placeholder is replaced, where it stands, by the
\* value bound to it
RECURSIVE InPlace(_, _, _)
InPlace(c, text, args_str) ==
    LET open == find(text, "{", 1)
        close == IF open = 0 THEN 0 ELSE find(text, "}", open)
    IN  IF open = 0 \/ close = 0 THEN text
        ELSE SubSeq(text, 1, open - 1)
             \o replacement(c, SubSeq(text, open + 1, close - 1), args_str).v
             \o InPlace(c, SubSeq(text, close + 1, Len(text)), args_str)

EscapedArgs ==
    IF subst.args.v = << >>
    THEN IF subst.default_args.some THEN subst.default_args.v ELSE << >>
    ELSE join([k \in DOMAIN subst.args.v |-> escape_string(subst.args.v[k])],
              <<" ">>)

\* C26: in a successful expansion with arguments, a text with an {args}
\* placeholder has the escaped, space-joined arguments (default_args, else
\* nothing, for an empty list) in the place of the placeholder and nothing
\* appended; a text without one, given a non-empty list, is followed by
\* one space and the escaped arguments.
C26_ArgsExpansion ==
    (subst.call = "resolve_substitutions_with_args" /\ subst.res.ok) =>
        IF <<"args">> \in Range(Placeholders(subst.command, 1))
        THEN subst.res.v = InPlace(subst.c, subst.command, EscapedArgs)
        ELSE subst.args.v # << >> =>
                subst.res.v = InPlace(subst.c, subst.command, EscapedArgs)
                              \o <<" ">> \o EscapedArgs

NoArguments ==
    \/ subst.call = "resolve_substitutions"
    \/ /\ subst.call = "resolve_substitutions_with_args"
       /\ subst.args.v = << >>
       /\ ~subst.default_args.some

\* C27: expansion without arguments, or with an empty argument list and no
\* default_args, returns a text without "{" as it is, and leaves a "{"
\* that no "}" follows, and what comes after it, as it is.
C27_BracesIntact ==
    NoArguments =>
        /\ "{" \notin Range(subst.command) => subst.res = Ok(subst.command)
        /\ \A p \in DOMAIN subst.command :
              (/\ subst.command[p] = "{"
               /\ find(subst.command, "}", p) = 0
               /\ subst.res.ok) =>
                  /\ Len(subst.res.v) >= Len(subst.command) - p + 1
                  /\ SubSeq(subst.res.v,
                            Len(subst.res.v) - (Len(subst.command) - p),
                            Len(subst.res.v))
                     = SubSeq(subst.command, p, Len(subst.command))

Unbound ==
    LET ps == Placeholders(subst.command, 1)
    IN  {k \in DOMAIN ps : ~replacement(subst.c, ps[k], << >>).some}

\* C28: when a placeholder of the text has no binding, the expansion
\* returns an error that names the first such placeholder, and no text.
C28_UnboundIsError ==
    (subst.call # "none" /\ Unbound # {}) =>
        LET ps == Placeholders(subst.command, 1)
            k == CHOOSE i \in Unbound : \A j \in Unbound : i <= j
        IN  subst.res = Err(<<"Variable <">> \o ps[k] \o <<"> not found">>)

\* an expansion has failed on a placeholder that stands after a bound one
C28_Witness ==
    /\ subst.call # "none"
    /\ Unbound # {}
    /\ 1 \notin Unbound
    /\ ~subst.res.ok

\* the daemons that the loop of run_target_inner has started, in order
Started ==
    LET done == SubSeq(td.required, 1, td.i - 1)
    IN  SelectSeq(done, LAMBDA t : ScopeDaemon(t) /\ td.file = "runner.rs")

\* C29: the value that run returns is the result of the walk and the
\* terminal action, whatever the stops did, and by then a stop has been
\* attempted on every started daemon, in the reverse of the order of
\* starting, with a warning for each stop that failed.
C29_TeardownSwallowed ==
    td.ph = "returned" =>
        /\ td.returned = td.result
        /\ [k \in DOMAIN td.stops |-> td.stops[k].t] = Reverse(Started)
        /\ td.warned = [k \in DOMAIN SelectSeq(td.stops, LAMBDA x : ~x.ok) |->
                           SelectSeq(td.stops, LAMBDA x : ~x.ok)[k].t]

\* run has returned the error of the walk after the first of two stops
\* failed and the second was still made
C29_Witness ==
    /\ td.ph = "returned"
    /\ ~td.returned.ok
    /\ Len(td.stops) = 2
    /\ ~td.stops[1].ok

\* the literal directory prefix of a pattern: its components before the
\* first one with a glob character
RECURSIVE LiteralPrefix(_)
LiteralPrefix(pattern) ==
    IF pattern = << >> \/ has_glob(Head(pattern)) THEN << >>
    ELSE <<Head(pattern)>> \o LiteralPrefix(Tail(pattern))

Covers(root, dir) == root = <<".">> \/ dir_starts_with(dir, root)

\* C30: no component of a computed watch root holds a glob character;
\* the literal directory prefix of every pattern is one of the roots or
\* lies below one; a pattern without such a prefix gives the root ./ .
C30_RootsLiteralAndCovering ==
    roots.st = "roots" =>
        /\ \A root \in roots.result : \A k \in DOMAIN root : ~has_glob(root[k])
        /\ \A k \in DOMAIN roots.patterns :
              LET dir == LiteralPrefix(roots.patterns[k])
              IN  IF dir = << >>
                  THEN <<".">> \in roots.result
                  ELSE \E root \in roots.result : Covers(root, dir)

\* C31: no watch root is an ancestor directory of another watch root, ./
\* being the ancestor of every relative root, and the same patterns in any
\* order give the same set of roots.
C31_RootsMinimalAnyOrder ==
    roots.st = "roots" =>
        /\ \A a \in roots.result : \A b \in roots.result :
              a # b => ~Covers(a, b)
        /\ \A list \in Reorderings(roots.patterns) :
              find_matching_paths(list) = roots.result

\* the targets reached from a set along requires
RECURSIVE RequiresClosure(_)
RequiresClosure(set) ==
    LET more_ == set \cup UNION {Range(trig.graph[t]) : t \in set}
    IN  IF more_ = set THEN set ELSE RequiresClosure(more_)

Requirers(x) ==
    {t \in RequiresClosure({trig.root}) : x \in Range(trig.graph[t])}

Expected == Calls(SelectSeq(trig.result, LAMBDA w : matches(w, trig.files)))

TransitiveRequirers(x) ==
    {t \in RequiresClosure({trig.root}) \ {x} :
        x \in RequiresClosure(Range(trig.graph[t]))}

\* C38: when a batch in which a changed path matches the patterns of an
\* artifact X is done, every target of the trigger set that requires X,
\* directly or through other targets, has been dispatched in the batch,
\* after X.
C38_TransitiveRedispatch ==
    (trig.ph = "watching" /\ trig.batches > 0 /\ trig.files # {}) =>
        \A k \in DOMAIN trig.result :
            matches(trig.result[k], trig.files) =>
                \A t \in TransitiveRequirers(trig.result[k].target) :
                    /\ \E j \in DOMAIN trig.log : trig.log[j].t = t
                    /\ \E i \in DOMAIN trig.log : \E j \in DOMAIN trig.log :
                          /\ trig.log[i].t = trig.result[k].target
                          /\ trig.log[j].t = t
                          /\ i < j

\* the last line that the child has written
LastWritten ==
    IF img.written = 0 THEN << >> ELSE img.lines[img.written]

\* C34: the parent harvests the channel only when the child has exited
\* and the reader thread has sent its message; until the build returns
\* some process can take a step; a build that returns success leaves the
\* key sha of the target in the outputs store, equal to the last line
\* that the child wrote, and a build that returns an error leaves the
\* store as it was.
C34_ShaHarvested ==
    /\ img.parent = "check" => (img.child = "exited" /\ img.reader = "done")
    /\ img.parent \in {"wait", "join", "check"} => ENABLED NextImage
    /\ (img.parent = "returned" /\ ~img.skipped /\ img.res.ok) =>
          /\ img.success
          /\ get2(img.outputs, ThatName, <<"sha">>) = Some(LastWritten)
          /\ \A n \in DOMAIN img.outputs0 : img.outputs[n] = img.outputs0[n]
    /\ (img.parent = "returned" /\ ~img.res.ok) => img.outputs = img.outputs0

\* a build whose child wrote more lines than the pipe holds has returned
\* success
C34_Witness ==
    /\ img.parent = "returned"
    /\ ~img.skipped
    /\ img.res.ok
    /\ img.written > PipeCap
    /\ img.written >= 2
    /\ get2(img.outputs, ThatName, <<"sha">>) = Some(img.lines[Len(img.lines)])

\* C37: after build of a container image has returned success, built or
\* found up to date, the outputs store holds the key sha of the target,
\* and the expansion of {T.output.sha} later in the invocation succeeds.
C37_ShaAfterBuild ==
    (img.parent = "returned" /\ img.res.ok) =>
        /\ get2(img.outputs, ThatName, <<"sha">>).some
        /\ img.expanded # Nothing => img.expanded.ok

\* C35: latest_update_time returns Never for the empty list and for a
\* list with an entry Never, and otherwise the greatest of the times; the
\* result is the same for every order of the list.
C35_LatestOrNever ==
    lut.ph = "done" =>
        /\ (lut.times = << >> \/ Never \in Range(lut.times)) =>
              lut.latest = Never
        /\ (lut.times # << >> /\ Never \notin Range(lut.times)) =>
              /\ lut.latest \in Range(lut.times)
              /\ \A t \in Range(lut.times) : t <= lut.latest
        /\ lut.before.some => lut.latest = lut.before.v

\* a list of three different times, the latest in the middle, met in a
\* second order
C35_Witness ==
    /\ lut.ph = "done"
    /\ lut.before.some
    /\ Len(lut.times) = 3
    /\ Cardinality(Range(lut.times)) = 3
    /\ Never \notin Range(lut.times)
    /\ lut.times[2] = lut.latest

\* C39: of two concurrent starts of one target at most one spawns the
\* daemon, and when both have returned every daemon that runs is the one
\* whose pid the pid file holds.
C39_OneDaemonSpawned ==
    /\ Cardinality(starts.spawned) <= 1
    /\ (\A p \in Invocations : starts.pc[p] \in {"done", "failed"}) =>
          \A child \in starts.alive : child = starts.pid_file

\* C36: with an acyclic requires graph, no daemon running beforehand and
\* every command exiting with status 0, run of a target returns success,
\* also when a daemon is required by the target and by one of its
\* requirements.
C36_RunSucceeds ==
    (cyc.root # "none" /\ cyc.stack = << >>) => cyc.res = <<"ok">>

\* C40: an artifact declared without if_files_changed is never found up
\* to date: when its requirements are done its build command is started,
\* whatever its sentinel, its outputs and the sentinels of its
\* requirements are, and when the command has succeeded its sentinel gets
\* a new modification time.
C40_AlwaysRebuilt ==
    [][/\ (/\ ~Idle
           /\ img = Undeclared(Top.t)
           /\ RequiredDone
           /\ Len(stack') = Len(stack)
           /\ stack' # stack) => stack'[Len(stack')].ph = "act"
       /\ (/\ ~Idle
           /\ img = Undeclared(Top.t)
           /\ Top.ph = "done"
           /\ Len(stack') = Len(stack)
           /\ stack' # stack) =>
              /\ sentinel'[Top.t] = now
              /\ sentinel'[Top.t] > sentinel[Top.t]
       /\ \A k \in DOMAIN stack :
              img = Undeclared(stack[k].t) => stack[k].ph # "skip"]_vars

\* the second build of the artifact with outputs, its sentinel and outputs
\* in place and no input changed, has executed the command and touched
\* the sentinel
C40_Witness ==
    /\ ~Idle
    /\ img = Undeclared("lib")
    /\ Top.t = "lib"
    /\ Top.op = "build"
    /\ Top.ph = "td"
    /\ Top.res = "ok"
    /\ Top.s0 > 0
    /\ edits = 0
    /\ mtime["out1"] > Top.s0
    /\ sentinel["lib"] > mtime["out1"]
====
